---- MODULE Spec2Model ----
(***************************************************************************)
(* nginx-to-edge-js: the directive-tree -> configuration-model builder and *)
(* the four edge-code generators (CloudFlare Workers, Next.js middleware,  *)
(* Lambda@Edge, QuickJS).                                                  *)
(*                                                                         *)
(* JavaScript strings are TLA+ strings; template literals are \o           *)
(* concatenations, so generated source text is modelled character for      *)
(* character.  An optional object property is a key that may be missing    *)
(* from the DOMAIN of the record.                                          *)
(***************************************************************************)
EXTENDS Integers, Sequences, FiniteSets, TLC

VARIABLES parseResult, config, phase, clock, gen, validation, output, prevOutput,
          fsys, request, call, results, returned, writes,
          child, stdout, stderr, promise, timeout, killed, terminal,
          parser, libucl, lastCall, ops

\* the builder and the generators
genVars == <<parseResult, config, phase, clock, gen, validation, output, prevOutput>>
\* the nginx-to-UCL converter and the files it works on
convVars == <<fsys, request, call, results, returned, writes>>
\* one call of NginxParser.runCrossplane and the child process it spawns
procVars == <<child, stdout, stderr, promise, timeout, killed, terminal>>
\* a UCLParser object, the native library behind it and the calls made
uclVars == <<parser, libucl, lastCall, ops>>

\* what the actions of one part leave alone
nonGenVars == <<convVars, procVars, uclVars>>
nonConvVars == <<genVars, procVars, uclVars>>
nonProcVars == <<genVars, convVars, uclVars>>
nonUclVars == <<genVars, convVars, procVars>>

vars == <<genVars, convVars, procVars, uclVars>>

(***************************************************************************)
(* String primitives of the JavaScript runtime.                            *)
(***************************************************************************)

\* String.prototype.startsWith
StartsWith(s, p) == Len(p) <= Len(s) /\ SubSeq(s, 1, Len(p)) = p

\* String.prototype.endsWith
EndsWith(s, p) == Len(p) <= Len(s) /\ SubSeq(s, Len(s) - Len(p) + 1, Len(s)) = p

\* String.prototype.includes
Includes(s, p) == \E i \in 1..(Len(s) - Len(p) + 1) : SubSeq(s, i, i + Len(p) - 1) = p

\* String.prototype.indexOf, 1-based; 0 when p does not occur
IndexOf(s, p) ==
  IF Includes(s, p)
    THEN CHOOSE i \in 1..(Len(s) - Len(p) + 1) :
           /\ SubSeq(s, i, i + Len(p) - 1) = p
           /\ \A j \in 1..(i - 1) : SubSeq(s, j, j + Len(p) - 1) # p
    ELSE 0

\* String.prototype.lastIndexOf, 1-based; 0 when p does not occur
LastIndexOf(s, p) ==
  IF Includes(s, p)
    THEN CHOOSE i \in 1..(Len(s) - Len(p) + 1) :
           /\ SubSeq(s, i, i + Len(p) - 1) = p
           /\ \A j \in (i + 1)..(Len(s) - Len(p) + 1) : SubSeq(s, j, j + Len(p) - 1) # p
    ELSE 0

\* String.prototype.substring(k) with a 0-based k
Substring(s, k) == SubSeq(s, k + 1, Len(s))

\* s.replace(p, r) with a string pattern: first occurrence only
ReplaceFirst(s, p, r) ==
  IF IndexOf(s, p) = 0 THEN s
  ELSE SubSeq(s, 1, IndexOf(s, p) - 1) \o r \o SubSeq(s, IndexOf(s, p) + Len(p), Len(s))

RECURSIVE ReplaceAll(_, _, _)
\* s.replace(/p/g, r) for a non-empty literal pattern p
ReplaceAll(s, p, r) ==
  IF s = "" THEN ""
  ELSE IF StartsWith(s, p) THEN r \o ReplaceAll(SubSeq(s, Len(p) + 1, Len(s)), p, r)
  ELSE Head(s) \o ReplaceAll(Tail(s), p, r)

LowerOf(c) ==
  CASE c = "A" -> "a" [] c = "B" -> "b" [] c = "C" -> "c" [] c = "D" -> "d" [] c = "E" -> "e"
    [] c = "F" -> "f" [] c = "G" -> "g" [] c = "H" -> "h" [] c = "I" -> "i" [] c = "J" -> "j"
    [] c = "K" -> "k" [] c = "L" -> "l" [] c = "M" -> "m" [] c = "N" -> "n" [] c = "O" -> "o"
    [] c = "P" -> "p" [] c = "Q" -> "q" [] c = "R" -> "r" [] c = "S" -> "s" [] c = "T" -> "t"
    [] c = "U" -> "u" [] c = "V" -> "v" [] c = "W" -> "w" [] c = "X" -> "x" [] c = "Y" -> "y"
    [] c = "Z" -> "z" [] OTHER -> c

RECURSIVE ToLowerCase(_)
\* String.prototype.toLowerCase
ToLowerCase(s) == IF s = "" THEN "" ELSE LowerOf(Head(s)) \o ToLowerCase(Tail(s))

RECURSIVE Join(_, _)
\* Array.prototype.join (the array is halved to keep the evaluation shallow)
Join(lines, sep) ==
  IF Len(lines) = 0 THEN ""
  ELSE IF Len(lines) = 1 THEN lines[1]
  ELSE Join(SubSeq(lines, 1, Len(lines) \div 2), sep) \o sep
       \o Join(SubSeq(lines, Len(lines) \div 2 + 1, Len(lines)), sep)

\* Array.prototype.includes
ArrayIncludes(arr, x) == \E i \in 1..Len(arr) : arr[i] = x

Digits == {"0", "1", "2", "3", "4", "5", "6", "7", "8", "9"}

DigitVal(c) ==
  CASE c = "0" -> 0 [] c = "1" -> 1 [] c = "2" -> 2 [] c = "3" -> 3 [] c = "4" -> 4
    [] c = "5" -> 5 [] c = "6" -> 6 [] c = "7" -> 7 [] c = "8" -> 8 [] c = "9" -> 9

\* The number value NaN (integers are the other number values of the model)
NaN == -999999999

RECURSIVE DigitPrefix(_, _)
\* value of the longest prefix of decimal digits of s, accumulated onto acc
DigitPrefix(s, acc) ==
  IF s = "" \/ Head(s) \notin Digits THEN acc
  ELSE DigitPrefix(Tail(s), acc * 10 + DigitVal(Head(s)))

\* parseInt(s, 10) of a string without leading blanks
parseInt(s) ==
  IF s = "" THEN NaN
  ELSE IF Head(s) = "-"
    THEN (IF Len(s) >= 2 /\ SubSeq(s, 2, 2) \in Digits THEN 0 - DigitPrefix(Tail(s), 0) ELSE NaN)
  ELSE IF Head(s) = "+"
    THEN (IF Len(s) >= 2 /\ SubSeq(s, 2, 2) \in Digits THEN DigitPrefix(Tail(s), 0) ELSE NaN)
  ELSE IF Head(s) \in Digits THEN DigitPrefix(s, 0)
  ELSE NaN

\* `${n}` for a number
NumToString(n) == IF n = NaN THEN "NaN" ELSE ToString(n)

\* obj.key read of an optional property; "" stands for undefined (falsy)
Has(obj, key) == key \in DOMAIN obj

\* a string-valued optional property is truthy when present and non-empty
Truthy(obj, key) == Has(obj, key) /\ obj[key] # ""

\* {} : the empty object
EmptyObject == <<>>

\* obj[key] = value on a string-keyed object
SetKey(obj, key, value) ==
  [k \in (DOMAIN obj) \cup {key} |-> IF k = key THEN value ELSE obj[k]]

(***************************************************************************)
(* Configuration Model Builder (core/transformer.ts).                      *)
(* A directive node is [directive, args, block?]; block is a sequence of   *)
(* nodes and is present only on container directives.                      *)
(***************************************************************************)

\* args[0] || dflt
ArgOr(args, dflt) == IF Len(args) >= 1 /\ args[1] # "" THEN args[1] ELSE dflt

\* one iteration of the switch in convertLocationBlock
LocationDirectiveStep_FirstWins(directives, ld) ==
  CASE ld.directive = "proxy_pass" /\ Len(ld.args) >= 1 ->
         SetKey(directives, "proxy_pass", ld.args[1])
    [] ld.directive = "return" ->
         SetKey(directives, "return",
                IF Len(ld.args) >= 2
                  THEN [code |-> parseInt(ld.args[1]), url |-> ld.args[2]]
                  ELSE [code |-> parseInt(ArgOr(ld.args, ""))])
    [] ld.directive = "root" /\ Len(ld.args) >= 1 ->
         SetKey(directives, "root", ld.args[1])
    [] ld.directive = "expires" /\ Len(ld.args) >= 1 ->
         SetKey(directives, "expires", ld.args[1])
    [] ld.directive = "add_header" /\ Len(ld.args) >= 2 ->
         SetKey(directives, "add_header",
                IF Has(directives, "add_header") /\ Has(directives["add_header"], ld.args[1])
                  THEN directives["add_header"]
                  ELSE SetKey(IF Has(directives, "add_header")
                                THEN directives["add_header"] ELSE EmptyObject,
                              ld.args[1], ld.args[2]))
    [] OTHER -> directives

\* one iteration of the switch in convertLocationBlock
LocationDirectiveStep(directives, ld) ==
  CASE ld.directive = "proxy_pass" /\ Len(ld.args) >= 1 ->
         SetKey(directives, "proxy_pass", ld.args[1])
    [] ld.directive = "return" ->
         SetKey(directives, "return",
                IF Len(ld.args) >= 2
                  THEN [code |-> parseInt(ld.args[1]), url |-> ld.args[2]]
                  ELSE [code |-> parseInt(ArgOr(ld.args, ""))])
    [] ld.directive = "root" /\ Len(ld.args) >= 1 ->
         SetKey(directives, "root", ld.args[1])
    [] ld.directive = "expires" /\ Len(ld.args) >= 1 ->
         SetKey(directives, "expires", ld.args[1])
    [] ld.directive = "add_header" /\ Len(ld.args) >= 2 ->
         SetKey(directives, "add_header",
                SetKey(IF Has(directives, "add_header")
                         THEN directives["add_header"] ELSE EmptyObject,
                       ld.args[1], ld.args[2]))
    [] OTHER -> directives

RECURSIVE LocationDirectivesLoop(_, _)
\* for (const locationDirective of directive.block) { switch ... }
LocationDirectivesLoop(block, directives) ==
  IF Len(block) = 0 THEN directives
  ELSE LocationDirectivesLoop(Tail(block), LocationDirectiveStep(directives, Head(block)))

convertLocationBlock(directive) ==
  [path |-> ArgOr(directive.args, "/"),
   directives |-> IF Has(directive, "block")
                    THEN LocationDirectivesLoop(directive.block, EmptyObject)
                    ELSE EmptyObject]

\* one iteration of the switch in convertServerBlock
ServerDirectiveStep(server, sd) ==
  CASE sd.directive = "listen" ->
         [server EXCEPT !.listen = Append(@, [port |-> parseInt(ArgOr(sd.args, "80"))])]
    [] sd.directive = "server_name" ->
         SetKey(server, "server_name", sd.args)
    [] sd.directive = "location" ->
         [server EXCEPT !.locations = Append(@, convertLocationBlock(sd))]
    [] OTHER -> server

RECURSIVE ServerDirectivesLoop(_, _)
ServerDirectivesLoop(block, server) ==
  IF Len(block) = 0 THEN server
  ELSE ServerDirectivesLoop(Tail(block), ServerDirectiveStep(server, Head(block)))

convertServerBlock(directive) ==
  IF Has(directive, "block")
    THEN ServerDirectivesLoop(directive.block, [listen |-> <<>>, locations |-> <<>>])
    ELSE [listen |-> <<>>, locations |-> <<>>]

RECURSIVE HttpBlockLoop(_, _)
\* for (const httpDirective of directive.block): servers are converted,
\* upstream and everything else is skipped
HttpBlockLoop(block, servers) ==
  IF Len(block) = 0 THEN servers
  ELSE HttpBlockLoop(Tail(block),
                     IF Head(block).directive = "server"
                       THEN Append(servers, convertServerBlock(Head(block)))
                       ELSE servers)

RECURSIVE ParsedLoop_HttpOnly(_, _)
\* a walk that converts only the servers inside http blocks
ParsedLoop_HttpOnly(parsed, servers) ==
  IF Len(parsed) = 0 THEN servers
  ELSE ParsedLoop_HttpOnly(Tail(parsed),
         IF Head(parsed).directive = "http" /\ Has(Head(parsed), "block")
           THEN HttpBlockLoop(Head(parsed).block, servers)
         ELSE servers)

RECURSIVE ParsedLoop(_, _)
\* for (const directive of nginxConfig.parsed)
ParsedLoop(parsed, servers) ==
  IF Len(parsed) = 0 THEN servers
  ELSE ParsedLoop(Tail(parsed),
         IF Head(parsed).directive = "http" /\ Has(Head(parsed), "block")
           THEN HttpBlockLoop(Head(parsed).block, servers)
         ELSE IF Head(parsed).directive = "server"
           THEN Append(servers, convertServerBlock(Head(parsed)))
         ELSE servers)

\* parseResult is [config |-> sequence of [parsed |-> nodes]]; now is new Date()
convertCrossplaneToConfig(pr, now) ==
  [servers |-> IF Len(pr.config) > 0 /\ Has(pr.config[1], "parsed")
                 THEN ParsedLoop(pr.config[1].parsed, <<>>)
                 ELSE <<>>,
   upstreams |-> <<>>,
   global |-> EmptyObject,
   metadata |-> [parsed_at |-> now,
                 parser_version |-> "crossplane-1.0.0",
                 warnings |-> <<>>]]

(***************************************************************************)
(* Base generator (generators/base-generator.ts): shared helpers.          *)
(***************************************************************************)

Generators == {"cloudflare", "nextjs", "lambda-edge", "quickjs"}

\* server.server_name || []
extractHostPatterns(server) ==
  IF Has(server, "server_name") THEN server.server_name ELSE <<>>

\* static-file indicators: root or alias present
isStaticLocation(location) ==
  Truthy(location.directives, "root") \/ Truthy(location.directives, "alias")

\* nginx regex syntax is passed through unchanged
convertNginxRegex(regex) == regex

\* header comment: fixed text, no timestamp
generateHeader ==
  Join(<<"// Generated by nginx-to-edge-js",
         "// Do not edit manually",
         "">>, "\n")

\* location.modifier, "" when the location has none
Modifier(location) == IF Has(location, "modifier") THEN location.modifier ELSE ""

\* rule.flags?.includes(flag)
FlagsInclude(rule, flag) == Has(rule, "flags") /\ ArrayIncludes(rule.flags, flag)

\* the comparator of [...locations].sort(...): exact matches first, then by length
CompareLocations(a, b) ==
  IF Modifier(a) = "=" /\ Modifier(b) # "=" THEN -1
  ELSE IF Modifier(b) = "=" /\ Modifier(a) # "=" THEN 1
  ELSE Len(b.path) - Len(a.path)

\* insert x behind every element that does not compare greater (stable)
InsertLocation(sorted, x) ==
  LET before == {i \in 1..Len(sorted) : CompareLocations(x, sorted[i]) < 0}
      pos == IF before = {} THEN Len(sorted) + 1
             ELSE CHOOSE i \in before : \A j \in before : i <= j
  IN SubSeq(sorted, 1, pos - 1) \o <<x>> \o SubSeq(sorted, pos, Len(sorted))

RECURSIVE SortLoop(_, _)
SortLoop(rest, sorted) ==
  IF Len(rest) = 0 THEN sorted
  ELSE SortLoop(Tail(rest), InsertLocation(sorted, Head(rest)))

\* [...locations].sort(comparator): a sorted copy (Array.prototype.sort is stable)
SortLocations(locations) == SortLoop(locations, <<>>)

RECURSIVE ConcatAll(_)
\* handlers.push(...a), handlers.push(...b), ... : the concatenation of a sequence of line lists
ConcatAll(lists) ==
  IF Len(lists) = 0 THEN <<>>
  ELSE IF Len(lists) = 1 THEN lists[1]
  ELSE ConcatAll(SubSeq(lists, 1, Len(lists) \div 2))
       \o ConcatAll(SubSeq(lists, Len(lists) \div 2 + 1, Len(lists)))

\* the keys of an object in the order Object.entries lists them
RECURSIVE KeysOf(_)
KeysOf(keys) ==
  IF keys = {} THEN <<>>
  ELSE LET k == CHOOSE x \in keys : TRUE IN <<k>> \o KeysOf(keys \ {k})

(***************************************************************************)
(* CloudFlare Workers generator (generators/cloudflare.ts).                *)
(***************************************************************************)

\* the errors and warnings pushed for one location
CF_LocationFindings(location, index, locIndex) ==
  [warnings |->
     (IF Truthy(location.directives, "root") \/ Truthy(location.directives, "alias")
        THEN <<"Server " \o ToString(index) \o ", Location " \o ToString(locIndex)
                 \o ": Static file serving requires CloudFlare Pages or R2 integration">>
        ELSE <<>>)
     \o
     (IF Truthy(location.directives, "expires")
        THEN <<"Server " \o ToString(index) \o ", Location " \o ToString(locIndex)
                 \o ": Cache-Control headers should be set in CF dashboard or using CF-specific headers">>
        ELSE <<>>),
   errors |-> <<>>]

\* server.ssl?.certificate
SslCertificate(server) == Has(server, "ssl") /\ Truthy(server.ssl, "certificate")

CF_ServerFindings(server, index) ==
  [warnings |->
     (IF SslCertificate(server)
        THEN <<"Server " \o ToString(index)
                 \o ": SSL certificates are managed by CloudFlare, not in Workers">>
        ELSE <<>>)
     \o ConcatAll([l \in 1..Len(server.locations) |->
                     CF_LocationFindings(server.locations[l], index, l - 1).warnings]),
   errors |-> ConcatAll([l \in 1..Len(server.locations) |->
                     CF_LocationFindings(server.locations[l], index, l - 1).errors])]

CF_validatePlatformSpecific(cfg) ==
  [warnings |-> ConcatAll([i \in 1..Len(cfg.servers) |->
                             CF_ServerFindings(cfg.servers[i], i - 1).warnings]),
   errors |-> ConcatAll([i \in 1..Len(cfg.servers) |->
                             CF_ServerFindings(cfg.servers[i], i - 1).errors])]

\* without the '*' / empty-list shortcut
CF_generateHostCondition_NoWildcard(hostPatterns) ==
  Join([i \in 1..Len(hostPatterns) |->
          IF Includes(hostPatterns[i], "*")
            THEN "hostname.match(/^" \o ReplaceAll(hostPatterns[i], "*", ".*") \o "$/)"
            ELSE "hostname === \"" \o hostPatterns[i] \o "\""], " || ")

\* exact names are tested as prefixes of the hostname
CF_generateHostCondition_PrefixMatch(hostPatterns) ==
  IF ArrayIncludes(hostPatterns, "*") \/ Len(hostPatterns) = 0 THEN "true"
  ELSE Join([i \in 1..Len(hostPatterns) |->
               IF Includes(hostPatterns[i], "*")
                 THEN "hostname.match(/^" \o ReplaceAll(hostPatterns[i], "*", ".*") \o "$/)"
                 ELSE "hostname.startsWith(\"" \o hostPatterns[i] \o "\")"], " || ")

CF_generateHostCondition(hostPatterns) ==
  IF ArrayIncludes(hostPatterns, "*") \/ Len(hostPatterns) = 0 THEN "true"
  ELSE Join([i \in 1..Len(hostPatterns) |->
               IF Includes(hostPatterns[i], "*")
                 THEN "hostname.match(/^" \o ReplaceAll(hostPatterns[i], "*", ".*") \o "$/)"
                 ELSE "hostname === \"" \o hostPatterns[i] \o "\""], " || ")

CF_generateLocationCondition(location) ==
  LET path == location.path IN
  CASE Modifier(location) = "="  -> "url.pathname === \"" \o path \o "\""
    [] Modifier(location) = "~"  -> "url.pathname.match(/" \o convertNginxRegex(path) \o "/)"
    [] Modifier(location) = "~*" -> "url.pathname.match(/" \o convertNginxRegex(path) \o "/i)"
    [] Modifier(location) = "^~" -> "url.pathname.startsWith(\"" \o path \o "\")"
    [] OTHER ->
         IF EndsWith(path, "/")
           THEN "url.pathname.startsWith(\"" \o path \o "\")"
           ELSE "url.pathname === \"" \o path \o "\" || url.pathname.startsWith(\""
                  \o path \o "/\")"

\* returnDir.url || returnDir.text || '/'
RedirectUrlOf(returnDir) ==
  IF Truthy(returnDir, "url") THEN returnDir.url
  ELSE IF Truthy(returnDir, "text") THEN returnDir.text
  ELSE "/"

\* the lines one rewrite rule contributes in the worker generator
CF_RewriteRuleLines(rule, indent) ==
  IF FlagsInclude(rule, "redirect") \/ FlagsInclude(rule, "permanent")
    THEN <<indent \o "if (url.pathname.match(/" \o rule.regex \o "/)) {",
           indent \o "  const newUrl = url.pathname.replace(/" \o rule.regex \o "/, \""
             \o rule.replacement \o "\");",
           indent \o "  return Response.redirect(newUrl, "
             \o (IF FlagsInclude(rule, "permanent") THEN "301" ELSE "302") \o ");",
           indent \o "}">>
    ELSE <<>>

CF_RewriteLines(location, indent) ==
  IF Has(location.directives, "rewrite")
    THEN ConcatAll([r \in 1..Len(location.directives["rewrite"]) |->
                      CF_RewriteRuleLines(location.directives["rewrite"][r], indent)])
    ELSE <<>>

\* the redirect always answers 302 instead of the directive's code
CF_generateLocationAction_Fixed302(location, indent) ==
  IF Has(location.directives, "return")
     /\ location.directives["return"].code >= 300
     /\ location.directives["return"].code < 400
    THEN <<indent \o "const redirectUrl = \"" \o RedirectUrlOf(location.directives["return"]) \o "\";",
           indent \o "return Response.redirect(redirectUrl, 302);">>
  ELSE CF_RewriteLines(location, indent) \o
    (IF Truthy(location.directives, "proxy_pass")
       THEN <<indent \o "// Proxy to: " \o location.directives["proxy_pass"],
              indent \o "return await proxyRequest(request, \""
                \o location.directives["proxy_pass"] \o "\", url);">>
     ELSE IF isStaticLocation(location)
       THEN <<indent \o "// Static file serving - requires CloudFlare Pages or R2",
              indent \o "return new Response(\"Static file serving not implemented\", { status: 501 });">>
     ELSE <<indent \o "return new Response(\"Location matched but no action defined\", { status: 500 });">>)

CF_generateLocationAction(location, indent) ==
  IF Has(location.directives, "return")
     /\ location.directives["return"].code >= 300
     /\ location.directives["return"].code < 400
    THEN <<indent \o "const redirectUrl = \"" \o RedirectUrlOf(location.directives["return"]) \o "\";",
           indent \o "return Response.redirect(redirectUrl, "
             \o NumToString(location.directives["return"].code) \o ");">>
  ELSE CF_RewriteLines(location, indent) \o
    (IF Truthy(location.directives, "proxy_pass")
       THEN <<indent \o "// Proxy to: " \o location.directives["proxy_pass"],
              indent \o "return await proxyRequest(request, \""
                \o location.directives["proxy_pass"] \o "\", url);">>
     ELSE IF isStaticLocation(location)
       THEN <<indent \o "// Static file serving - requires CloudFlare Pages or R2",
              indent \o "return new Response(\"Static file serving not implemented\", { status: 501 });">>
     ELSE <<indent \o "return new Response(\"Location matched but no action defined\", { status: 500 });">>)

\* the lines of one location: comment, if, action, closing brace
CF_LocationBlock(location, indent) ==
  <<indent \o "// Location: " \o location.path,
    indent \o "if (" \o CF_generateLocationCondition(location) \o ") {">>
  \o CF_generateLocationAction(location, indent \o "  ")
  \o <<indent \o "}">>

\* const sortedLocations = [...locations].sort(...)
CF_EmittedLocations(locations) == SortLocations(locations)

CF_generateLocationHandlers(locations, indent) ==
  LET sortedLocations == CF_EmittedLocations(locations) IN
  ConcatAll([i \in 1..Len(sortedLocations) |->
     CF_LocationBlock(sortedLocations[i], indent)
     \o (IF i - 1 < Len(sortedLocations) - 1 THEN <<"">> ELSE <<>>)])

\* the lines of one server: comment, host if, location handlers, closing brace
CF_ServerBlock(server, index) ==
  <<"  // Server block " \o ToString(index + 1),
    "  if (" \o CF_generateHostCondition(extractHostPatterns(server)) \o ") {">>
  \o CF_generateLocationHandlers(server.locations, "    ")
  \o <<"  }", "">>

CF_generateServerHandlers(cfg) ==
  ConcatAll([i \in 1..Len(cfg.servers) |-> CF_ServerBlock(cfg.servers[i], i - 1)])

CF_generateHelperFunctions ==
  <<"// Helper function to proxy requests",
    "async function proxyRequest(request, backend, url) {",
    "  const backendUrl = new URL(backend);",
    "  const proxyUrl = new URL(url.pathname + url.search, backendUrl);",
    "",
    "  // Copy headers",
    "  const headers = new Headers(request.headers);",
    "  headers.set(\"Host\", backendUrl.hostname);",
    "  headers.set(\"X-Forwarded-For\", request.headers.get(\"CF-Connecting-IP\") || \"\");",
    "  headers.set(\"X-Real-IP\", request.headers.get(\"CF-Connecting-IP\") || \"\");",
    "",
    "  const response = await fetch(proxyUrl, {",
    "    method: request.method,",
    "    headers: headers,",
    "    body: request.body",
    "  });",
    "",
    "  // Copy response headers",
    "  const responseHeaders = new Headers(response.headers);",
    "  ",
    "  return new Response(response.body, {",
    "    status: response.status,",
    "    statusText: response.statusText,",
    "    headers: responseHeaders",
    "  });",
    "}">>

CF_generateWorkerCode(cfg) ==
  Join(<<"addEventListener(\"fetch\", event => {",
         "  event.respondWith(handleRequest(event.request));",
         "});",
         "",
         "async function handleRequest(request) {",
         "  const url = new URL(request.url);",
         "  const hostname = url.hostname;",
         "">>
       \o CF_generateServerHandlers(cfg)
       \o <<"",
            "  // Default response",
            "  return new Response(\"Not Found\", { status: 404 });",
            "}",
            "">>
       \o CF_generateHelperFunctions, "\n")

\* the text generate() assembles once validation has passed
CF_Assemble(cfg) == Join(<<generateHeader, CF_generateWorkerCode(cfg)>>, "\n")

(***************************************************************************)
(* Next.js middleware generator (generators/nextjs.ts).                    *)
(***************************************************************************)

NX_LocationFindings(location, index, locIndex) ==
  [warnings |->
     (IF Truthy(location.directives, "root") \/ Truthy(location.directives, "alias")
        THEN <<"Server " \o ToString(index) \o ", Location " \o ToString(locIndex)
                 \o ": Static files should be in the 'public' directory">>
        ELSE <<>>)
     \o
     (IF Truthy(location.directives, "proxy_pass")
         /\ ~StartsWith(location.directives["proxy_pass"], "http")
        THEN <<"Server " \o ToString(index) \o ", Location " \o ToString(locIndex)
                 \o ": Proxy backend should be a full URL for Next.js">>
        ELSE <<>>),
   errors |-> <<>>]

NX_ServerFindings(server, index) ==
  [warnings |->
     (IF Has(server, "ssl")
        THEN <<"Server " \o ToString(index)
                 \o ": SSL configuration is handled by deployment platform (Vercel, etc.)">>
        ELSE <<>>)
     \o ConcatAll([l \in 1..Len(server.locations) |->
                     NX_LocationFindings(server.locations[l], index, l - 1).warnings]),
   errors |-> ConcatAll([l \in 1..Len(server.locations) |->
                     NX_LocationFindings(server.locations[l], index, l - 1).errors])]

NX_validatePlatformSpecific(cfg) ==
  [warnings |-> ConcatAll([i \in 1..Len(cfg.servers) |->
                             NX_ServerFindings(cfg.servers[i], i - 1).warnings]),
   errors |-> ConcatAll([i \in 1..Len(cfg.servers) |->
                             NX_ServerFindings(cfg.servers[i], i - 1).errors])]

\* the imports preceded by a comment that carries the wall clock
NX_generateImports_Stamped ==
  Join(<<"// Generated at: " \o ToString(clock),
         "import { NextRequest, NextResponse } from \"next/server\";",
         "import type { NextFetchEvent } from \"next/server\";">>, "\n")

NX_generateImports ==
  Join(<<"import { NextRequest, NextResponse } from \"next/server\";",
         "import type { NextFetchEvent } from \"next/server\";">>, "\n")

NX_generateHostCondition(hostPatterns) ==
  IF ArrayIncludes(hostPatterns, "*") \/ Len(hostPatterns) = 0 THEN "true"
  ELSE Join([i \in 1..Len(hostPatterns) |->
               IF Includes(hostPatterns[i], "*")
                 THEN "hostname.match(/^" \o ReplaceAll(hostPatterns[i], "*", ".*") \o "$/)"
                 ELSE "hostname === \"" \o hostPatterns[i] \o "\""], " || ")

NX_generateLocationCondition(location) ==
  LET path == location.path IN
  CASE Modifier(location) = "="  -> "url.pathname === \"" \o path \o "\""
    [] Modifier(location) = "~"  -> "url.pathname.match(/" \o convertNginxRegex(path) \o "/)"
    [] Modifier(location) = "~*" -> "url.pathname.match(/" \o convertNginxRegex(path) \o "/i)"
    [] Modifier(location) = "^~" -> "url.pathname.startsWith(\"" \o path \o "\")"
    [] OTHER ->
         IF EndsWith(path, "/")
           THEN "url.pathname.startsWith(\"" \o path \o "\")"
           ELSE "url.pathname === \"" \o path \o "\" || url.pathname.startsWith(\""
                  \o path \o "/\")"

\* the lines one rewrite rule contributes in the middleware generator
NX_RewriteRuleLines(rule, indent) ==
  IF FlagsInclude(rule, "redirect") \/ FlagsInclude(rule, "permanent")
    THEN <<indent \o "if (url.pathname.match(/" \o rule.regex \o "/)) {",
           indent \o "  url.pathname = url.pathname.replace(/" \o rule.regex \o "/, \""
             \o rule.replacement \o "\");",
           indent \o "  return NextResponse.redirect(url, "
             \o (IF FlagsInclude(rule, "permanent") THEN "301" ELSE "302") \o ");",
           indent \o "}">>
    ELSE <<indent \o "if (url.pathname.match(/" \o rule.regex \o "/)) {",
           indent \o "  url.pathname = url.pathname.replace(/" \o rule.regex \o "/, \""
             \o rule.replacement \o "\");",
           indent \o "  return NextResponse.rewrite(url);",
           indent \o "}">>

NX_RewriteLines(location, indent) ==
  IF Has(location.directives, "rewrite")
    THEN ConcatAll([r \in 1..Len(location.directives["rewrite"]) |->
                      NX_RewriteRuleLines(location.directives["rewrite"][r], indent)])
    ELSE <<>>

\* response.headers.set(...) lines of the add_header map
NX_HeaderLines(headers, indent) ==
  LET keys == KeysOf(DOMAIN headers) IN
  [i \in 1..Len(keys) |->
     indent \o "response.headers.set(\"" \o keys[i] \o "\", \"" \o headers[keys[i]] \o "\");"]

NX_generateLocationAction(location, indent) ==
  IF Has(location.directives, "return")
     /\ location.directives["return"].code >= 300
     /\ location.directives["return"].code < 400
    THEN <<indent \o "url.pathname = \"" \o RedirectUrlOf(location.directives["return"]) \o "\";",
           indent \o "return NextResponse.redirect(url, "
             \o NumToString(location.directives["return"].code) \o ");">>
  ELSE NX_RewriteLines(location, indent) \o
    (IF Truthy(location.directives, "proxy_pass")
       THEN <<indent \o "// Proxy to: " \o location.directives["proxy_pass"],
              indent \o "const backendUrl = new URL(\"" \o location.directives["proxy_pass"] \o "\");",
              indent \o "backendUrl.pathname = url.pathname;",
              indent \o "backendUrl.search = url.search;",
              indent \o "return NextResponse.rewrite(backendUrl);">>
     ELSE IF isStaticLocation(location)
       THEN <<indent \o "// Static files served from /public directory",
              indent \o "return NextResponse.next();">>
     ELSE IF Has(location.directives, "add_header")
       THEN <<indent \o "const response = NextResponse.next();">>
            \o NX_HeaderLines(location.directives["add_header"], indent)
            \o <<indent \o "return response;">>
     ELSE <<indent \o "return NextResponse.next();">>)

\* the lines of one location: comment, if, action, closing brace
NX_LocationBlock(location, indent) ==
  <<indent \o "// Location: " \o location.path,
    indent \o "if (" \o NX_generateLocationCondition(location) \o ") {">>
  \o NX_generateLocationAction(location, indent \o "  ")
  \o <<indent \o "}">>

\* const sortedLocations = [...locations].sort(...)
NX_EmittedLocations(locations) == SortLocations(locations)

NX_generateLocationHandlers(locations, indent) ==
  LET sortedLocations == NX_EmittedLocations(locations) IN
  ConcatAll([i \in 1..Len(sortedLocations) |->
     NX_LocationBlock(sortedLocations[i], indent)
     \o (IF i - 1 < Len(sortedLocations) - 1 THEN <<"">> ELSE <<>>)])

NX_ServerBlock(server, index) ==
  <<"  // Server block " \o ToString(index + 1),
    "  if (" \o NX_generateHostCondition(extractHostPatterns(server)) \o ") {">>
  \o NX_generateLocationHandlers(server.locations, "    ")
  \o <<"  }", "">>

NX_generateServerHandlers(cfg) ==
  ConcatAll([i \in 1..Len(cfg.servers) |-> NX_ServerBlock(cfg.servers[i], i - 1)])

NX_generateMiddlewareFunction(cfg) ==
  Join(<<"export function middleware(request: NextRequest, event: NextFetchEvent) {",
         "  const url = request.nextUrl.clone();",
         "  const hostname = request.headers.get(\"host\") || \"\";",
         "">>
       \o NX_generateServerHandlers(cfg)
       \o <<"",
            "  // Continue to next middleware or page",
            "  return NextResponse.next();",
            "}">>, "\n")

\* the matcher patterns one location adds to the Set, in insertion order
NX_MatcherPaths(location) ==
  IF Modifier(location) = "~" \/ Modifier(location) = "~*"
    THEN <<"/((?!api|_next/static|_next/image|favicon.ico).*)">>
  ELSE IF location.path = "/" THEN <<"/">>
  ELSE IF EndsWith(location.path, "/") THEN <<location.path \o ":path*">>
  ELSE <<location.path, location.path \o "/:path*">>

RECURSIVE Dedup(_, _)
\* Set insertion: keeps the first occurrence of every value, in order
Dedup(items, seen) ==
  IF Len(items) = 0 THEN seen
  ELSE Dedup(Tail(items), IF ArrayIncludes(seen, Head(items)) THEN seen ELSE Append(seen, Head(items)))

NX_generateConfig(cfg) ==
  LET all == ConcatAll([i \in 1..Len(cfg.servers) |->
                 ConcatAll([l \in 1..Len(cfg.servers[i].locations) |->
                              NX_MatcherPaths(cfg.servers[i].locations[l])])])
      paths == Dedup(all, <<>>)
      matchers == Join([i \in 1..Len(paths) |-> "\"" \o paths[i] \o "\""], ",\n    ")
  IN Join(<<"export const config = {",
            "  matcher: [",
            "    " \o matchers,
            "  ]",
            "};">>, "\n")

\* the text generate() assembles once validation has passed
NX_Assemble(cfg) ==
  Join(<<generateHeader, NX_generateImports, "", NX_generateMiddlewareFunction(cfg), "",
         NX_generateConfig(cfg)>>, "\n")

(***************************************************************************)
(* new URL(input) without a base, as the generators use it: the scheme,    *)
(* authority and path of the WHATWG URL parser.  Not modelled: userinfo,   *)
(* IPv6 literals, percent-encoding and dot-segment removal.                *)
(***************************************************************************)

LowerLetters == {"a", "b", "c", "d", "e", "f", "g", "h", "i", "j", "k", "l", "m",
                 "n", "o", "p", "q", "r", "s", "t", "u", "v", "w", "x", "y", "z"}

SpecialSchemes == {"http", "https", "ws", "wss", "ftp"}

DefaultPort(scheme) ==
  CASE scheme = "http" -> "80" [] scheme = "https" -> "443" [] scheme = "ws" -> "80"
    [] scheme = "wss" -> "443" [] scheme = "ftp" -> "21" [] OTHER -> ""

\* every character of s is in the set chars
AllIn(s, chars) == \A i \in 1..Len(s) : SubSeq(s, i, i) \in chars

RECURSIVE StripLeadingSlashes(_)
StripLeadingSlashes(s) ==
  IF s # "" /\ (Head(s) = "/" \/ Head(s) = "\\") THEN StripLeadingSlashes(Tail(s)) ELSE s

\* index of the first character of s that is in stops, Len(s) + 1 when there is none
FirstStop(s, stops) ==
  IF \E i \in 1..Len(s) : SubSeq(s, i, i) \in stops
    THEN CHOOSE i \in 1..Len(s) :
           /\ SubSeq(s, i, i) \in stops
           /\ \A j \in 1..(i - 1) : SubSeq(s, j, j) \notin stops
    ELSE Len(s) + 1

InvalidURL == [ok |-> FALSE, protocol |-> "", hostname |-> "", port |-> "", pathname |-> ""]

\* host[:port] followed by the path, for the given scheme
ParseAuthority(scheme, s, special) ==
  LET authEnd   == FirstStop(s, {"/", "?", "#"} \cup (IF special THEN {"\\"} ELSE {}))
      authority == SubSeq(s, 1, authEnd - 1)
      afterAuth == SubSeq(s, authEnd, Len(s))
      colon     == LastIndexOf(authority, ":")
      host      == IF colon = 0 THEN authority ELSE SubSeq(authority, 1, colon - 1)
      portStr   == IF colon = 0 THEN "" ELSE SubSeq(authority, colon + 1, Len(authority))
      path      == SubSeq(afterAuth, 1, FirstStop(afterAuth, {"?", "#"}) - 1)
  IN IF special /\ host = "" THEN InvalidURL
     ELSE IF ~AllIn(ToLowerCase(host), LowerLetters \cup Digits \cup {"-", ".", "_"}) THEN InvalidURL
     ELSE IF ~AllIn(portStr, Digits) THEN InvalidURL
     ELSE IF portStr # "" /\ DigitPrefix(portStr, 0) > 65535 THEN InvalidURL
     ELSE [ok |-> TRUE,
           protocol |-> scheme \o ":",
           hostname |-> ToLowerCase(host),
           port |-> IF portStr = "" \/ NumToString(DigitPrefix(portStr, 0)) = DefaultPort(scheme)
                      THEN "" ELSE NumToString(DigitPrefix(portStr, 0)),
           pathname |-> IF path = "" /\ special THEN "/" ELSE path]

ParseURL(input) ==
  LET colon  == IndexOf(input, ":")
      scheme == ToLowerCase(SubSeq(input, 1, colon - 1))
      rest   == SubSeq(input, colon + 1, Len(input))
  IN IF colon <= 1 THEN InvalidURL
     ELSE IF Head(scheme) \notin LowerLetters
             \/ ~AllIn(scheme, LowerLetters \cup Digits \cup {"+", "-", "."}) THEN InvalidURL
     ELSE IF scheme \in SpecialSchemes
       THEN ParseAuthority(scheme, StripLeadingSlashes(rest), TRUE)
     ELSE IF StartsWith(rest, "//")
       THEN ParseAuthority(scheme, SubSeq(rest, 3, Len(rest)), FALSE)
     ELSE [ok |-> TRUE, protocol |-> scheme \o ":", hostname |-> "", port |-> "",
           pathname |-> SubSeq(rest, 1, FirstStop(rest, {"?", "#"}) - 1)]

\* proxyPass.replace(/\$.*/, '')
StripVariables(proxyPass) ==
  IF IndexOf(proxyPass, "$") = 0 THEN proxyPass
  ELSE SubSeq(proxyPass, 1, IndexOf(proxyPass, "$") - 1)

\* upstreamUrl.port || (upstreamUrl.protocol === 'https:' ? 443 : 80)
UpstreamPort(upstreamUrl) ==
  IF upstreamUrl.port # "" THEN upstreamUrl.port
  ELSE IF upstreamUrl.protocol = "https:" THEN "443" ELSE "80"

getStatusDescription(code) ==
  CASE code = 200 -> "OK" [] code = 201 -> "Created" [] code = 301 -> "Moved Permanently"
    [] code = 302 -> "Found" [] code = 304 -> "Not Modified" [] code = 400 -> "Bad Request"
    [] code = 401 -> "Unauthorized" [] code = 403 -> "Forbidden" [] code = 404 -> "Not Found"
    [] code = 500 -> "Internal Server Error" [] code = 502 -> "Bad Gateway"
    [] code = 503 -> "Service Unavailable" [] OTHER -> "Unknown"

(***************************************************************************)
(* Lambda@Edge generator (generators/lambda-edge.ts).                      *)
(***************************************************************************)

\* the errors and warnings pushed for one location
LE_LocationFindings(location, index, locIndex) ==
  [warnings |->
     (IF Truthy(location.directives, "root") \/ Truthy(location.directives, "alias")
        THEN <<"Server " \o ToString(index) \o ", Location " \o ToString(locIndex)
                 \o ": Static file serving requires S3 origin configuration">>
        ELSE <<>>)
     \o
     (IF Truthy(location.directives, "proxy_pass")
        THEN <<"Server " \o ToString(index) \o ", Location " \o ToString(locIndex)
                 \o ": Response size limited to 1MB in Lambda@Edge">>
        ELSE <<>>),
   errors |->
     (IF Truthy(location.directives, "fastcgi_pass") \/ Truthy(location.directives, "uwsgi_pass")
        THEN <<"Server " \o ToString(index) \o ", Location " \o ToString(locIndex)
                 \o ": FastCGI/uWSGI not supported in Lambda@Edge">>
        ELSE <<>>)]

RECURSIVE LE_LocationsLoop_FailFast(_, _, _, _)
\* a loop that stops at the first error
LE_LocationsLoop_FailFast(server, index, locIndex, acc) ==
  IF locIndex >= Len(server.locations) \/ Len(acc.errors) > 0 THEN acc
  ELSE LET f == LE_LocationFindings(server.locations[locIndex + 1], index, locIndex)
       IN LE_LocationsLoop_FailFast(server, index, locIndex + 1,
                           [warnings |-> acc.warnings \o f.warnings,
                            errors |-> acc.errors \o f.errors])

RECURSIVE LE_LocationsLoop(_, _, _, _)
\* server.locations.forEach from 0-based locIndex on, acc the findings so far
LE_LocationsLoop(server, index, locIndex, acc) ==
  IF locIndex >= Len(server.locations) THEN acc
  ELSE LET f == LE_LocationFindings(server.locations[locIndex + 1], index, locIndex)
       IN LE_LocationsLoop(server, index, locIndex + 1,
                           [warnings |-> acc.warnings \o f.warnings,
                            errors |-> acc.errors \o f.errors])

RECURSIVE LE_ServersLoop(_, _, _)
\* this.config.servers.forEach from 0-based index on
LE_ServersLoop(cfg, index, acc) ==
  IF index >= Len(cfg.servers) THEN acc
  ELSE LE_ServersLoop(cfg, index + 1,
         LE_LocationsLoop(cfg.servers[index + 1], index, 0,
           [warnings |-> acc.warnings \o
              (IF SslCertificate(cfg.servers[index + 1])
                 THEN <<"Server " \o ToString(index)
                          \o ": SSL certificates are managed by CloudFront, not in Lambda@Edge">>
                 ELSE <<>>),
            errors |-> acc.errors]))

LE_validatePlatformSpecific(cfg) ==
  LE_ServersLoop(cfg, 0, [warnings |-> <<>>, errors |-> <<>>])

LE_generateHostCondition(hostPatterns) ==
  IF ArrayIncludes(hostPatterns, "*") \/ Len(hostPatterns) = 0 THEN "true"
  ELSE Join([i \in 1..Len(hostPatterns) |->
               IF Includes(hostPatterns[i], "*")
                 THEN "hostname.match(/^"
                        \o ReplaceAll(ReplaceAll(hostPatterns[i], "*", ".*"), ".", "\\.")
                        \o "$/)"
                 ELSE "hostname === \"" \o hostPatterns[i] \o "\""], " || ")

LE_convertNginxPathToJs(path) ==
  IF path = "/" THEN "uri === \"/\" || uri.startsWith(\"/\")"
  ELSE IF Includes(path, "~")
    THEN "uri.match(/" \o ReplaceFirst(ReplaceFirst(path, "~*", ""), "~", "") \o "/)"
  ELSE IF StartsWith(path, "=")
    THEN "uri === \"" \o Substring(path, 1) \o "\""
  ELSE "matchesPath(uri, \"" \o path \o "\")"

LE_generateReturnHandler(returnDirective, indent) ==
  LET code == returnDirective.code
      url  == IF Has(returnDirective, "url") THEN returnDirective.url ELSE ""
  IN IF code >= 300 /\ code < 400 /\ url # ""
       THEN <<indent \o "// Redirect " \o NumToString(code) \o " to " \o url,
              indent \o "const redirectUrl = \"" \o url \o "\";",
              indent \o "return {",
              indent \o "  status: '" \o NumToString(code) \o "',",
              indent \o "  statusDescription: '" \o getStatusDescription(code) \o "',",
              indent \o "  headers: {",
              indent \o "    location: [{ key: 'Location', value: redirectUrl }]",
              indent \o "  }",
              indent \o "};">>
       ELSE <<indent \o "// Return " \o NumToString(code),
              indent \o "return {",
              indent \o "  status: '" \o NumToString(code) \o "',",
              indent \o "  statusDescription: '" \o getStatusDescription(code) \o "',",
              indent \o "  body: '" \o (IF url # "" THEN url ELSE getStatusDescription(code)) \o "'",
              indent \o "};">>

LE_wrapInQuotesIfNeeded(value) ==
  IF Includes(value, "request.headers") \/ Includes(value, "[0].value") THEN value
  ELSE "\"" \o value \o "\""

\* the nginx variables of a proxy_set_header value, replaced in the order of the code
LE_HeaderValue(value) ==
  ReplaceAll(
    ReplaceAll(
      ReplaceAll(value, "$host", "request.headers.host[0].value"),
      "$remote_addr", "request.headers[\"cloudfront-viewer-address\"][0].value.split(\":\")[0]"),
    "$proxy_add_x_forwarded_for",
    "request.headers[\"x-forwarded-for\"] ? request.headers[\"x-forwarded-for\"][0].value : request.headers[\"cloudfront-viewer-address\"][0].value.split(\":\")[0]")

LE_ProxyHeaderLines(location, indent) ==
  IF Has(location.directives, "proxy_set_header")
    THEN LET hs == location.directives["proxy_set_header"]
             keys == KeysOf(DOMAIN hs)
         IN <<indent \o "// Set proxy headers">> \o
            [i \in 1..Len(keys) |->
               indent \o "request.headers['" \o ToLowerCase(keys[i]) \o "'] = [{ key: '"
                 \o keys[i] \o "', value: " \o LE_wrapInQuotesIfNeeded(LE_HeaderValue(hs[keys[i]]))
                 \o " }];"]
    ELSE <<>>

\* new URL(...) in generateProxyHandler throws a TypeError
LE_ProxyHandlerThrows(proxyPass) == ~ParseURL(StripVariables(proxyPass)).ok

LE_generateProxyHandler(proxyPass, location, indent) ==
  LET upstreamUrl == ParseURL(StripVariables(proxyPass)) IN
  <<indent \o "// Proxy to: " \o proxyPass,
    indent \o "// Modify origin request",
    indent \o "request.origin = {",
    indent \o "  custom: {",
    indent \o "    domainName: '" \o upstreamUrl.hostname \o "',",
    indent \o "    port: " \o UpstreamPort(upstreamUrl) \o ",",
    indent \o "    protocol: '" \o ReplaceFirst(upstreamUrl.protocol, ":", "") \o "',",
    indent \o "    path: '" \o upstreamUrl.pathname \o "'",
    indent \o "  }",
    indent \o "};">>
  \o LE_ProxyHeaderLines(location, indent)

\* `${rewriteRule}` of an array of rule objects
ArrayOfObjectsToString(arr) == Join([i \in 1..Len(arr) |-> "[object Object]"], ",")

LE_generateRewriteHandler(rewriteRule, indent) ==
  <<indent \o "// Rewrite rule: " \o ArrayOfObjectsToString(rewriteRule),
    indent \o "// Note: Complex rewrites should be handled in viewer-request function">>

\* the handler lines of one location: return, else proxy_pass, else rewrite
LE_LocationAction(location, indent) ==
  IF Has(location.directives, "return")
    THEN LE_generateReturnHandler(location.directives["return"], indent)
  ELSE IF Truthy(location.directives, "proxy_pass")
    THEN LE_generateProxyHandler(location.directives["proxy_pass"], location, indent)
  ELSE IF Has(location.directives, "rewrite")
    THEN LE_generateRewriteHandler(location.directives["rewrite"], indent)
  ELSE <<>>

\* generating this location's handler throws
LE_LocationThrows(location) ==
  /\ ~Has(location.directives, "return")
  /\ Truthy(location.directives, "proxy_pass")
  /\ LE_ProxyHandlerThrows(location.directives["proxy_pass"])

LE_LocationBlock(location, indent) ==
  <<indent \o "// Location: " \o location.path,
    indent \o "if (" \o LE_convertNginxPathToJs(location.path) \o ") {">>
  \o LE_LocationAction(location, indent \o "  ")
  \o <<indent \o "}">>

\* locations.forEach: declaration order
LE_EmittedLocations(locations) == locations

LE_generateLocationHandlers(locations, indent) ==
  ConcatAll([i \in 1..Len(LE_EmittedLocations(locations)) |->
               LE_LocationBlock(LE_EmittedLocations(locations)[i], indent)])

LE_ServerBlock(server, index) ==
  <<"  // Server block " \o ToString(index + 1),
    "  if (" \o LE_generateHostCondition(extractHostPatterns(server)) \o ") {">>
  \o LE_generateLocationHandlers(server.locations, "    ")
  \o <<"  }">>

LE_generateServerHandlers(cfg) ==
  ConcatAll([i \in 1..Len(cfg.servers) |-> LE_ServerBlock(cfg.servers[i], i - 1)])

LE_generateOriginRequestHandlers ==
  <<"  // Origin request modifications",
    "  // Add any custom headers or path modifications here",
    "">>

\* the header lines one location contributes to handleOriginResponse
LE_ResponseHeaderLines(location) ==
  IF Has(location.directives, "add_header")
    THEN LET hs == location.directives["add_header"]
             keys == KeysOf(DOMAIN hs)
         IN <<"  // Add custom headers">> \o
            [i \in 1..Len(keys) |->
               "  response.headers['" \o ToLowerCase(keys[i]) \o "'] = [{ key: '" \o keys[i]
                 \o "', value: '" \o hs[keys[i]] \o "' }];"]
    ELSE <<>>

LE_generateOriginResponseHandlers(cfg) ==
  <<"  // Origin response modifications">>
  \o ConcatAll([i \in 1..Len(cfg.servers) |->
        ConcatAll([l \in 1..Len(cfg.servers[i].locations) |->
                     LE_ResponseHeaderLines(cfg.servers[i].locations[l])])])
  \o <<"">>

LE_generateViewerResponseHandlers ==
  <<"  // Viewer response modifications",
    "  // Final response modifications before sending to client",
    "">>

LE_generateHelperFunctions ==
  <<"// Helper functions",
    "",
    "function matchesPath(uri, pattern) {",
    "  if (pattern === '/') return true;",
    "  if (pattern.endsWith('/')) {",
    "    return uri.startsWith(pattern);",
    "  }",
    "  return uri === pattern || uri.startsWith(pattern + '/');",
    "}",
    "",
    "function addHeader(headers, name, value) {",
    "  const key = name.toLowerCase();",
    "  if (!headers[key]) {",
    "    headers[key] = [];",
    "  }",
    "  headers[key].push({ key: name, value: value });",
    "}",
    "",
    "function setHeader(headers, name, value) {",
    "  const key = name.toLowerCase();",
    "  headers[key] = [{ key: name, value: value }];",
    "}">>

LE_generateLambdaCode(cfg) ==
  Join(<<"exports.handler = async (event) => {",
         "  const request = event.Records[0].cf.request;",
         "  const response = event.Records[0].cf.response;",
         "  const headers = request.headers;",
         "  const uri = request.uri;",
         "  const hostname = headers.host ? headers.host[0].value : '';",
         "",
         "  // Process based on event type",
         "  switch (event.Records[0].cf.eventType) {",
         "    case 'viewer-request':",
         "      return await handleViewerRequest(request);",
         "    case 'origin-request':",
         "      return await handleOriginRequest(request);",
         "    case 'origin-response':",
         "      return await handleOriginResponse(response);",
         "    case 'viewer-response':",
         "      return await handleViewerResponse(response);",
         "    default:",
         "      return request;",
         "  }",
         "};",
         "",
         "async function handleViewerRequest(request) {",
         "  const uri = request.uri;",
         "  const hostname = request.headers.host ? request.headers.host[0].value : '';",
         "">>
       \o LE_generateServerHandlers(cfg)
       \o <<"",
            "  return request;",
            "}",
            "",
            "async function handleOriginRequest(request) {",
            "  // Modify request to origin">>
       \o LE_generateOriginRequestHandlers
       \o <<"  return request;",
            "}",
            "",
            "async function handleOriginResponse(response) {",
            "  // Modify response from origin">>
       \o LE_generateOriginResponseHandlers(cfg)
       \o <<"  return response;",
            "}",
            "",
            "async function handleViewerResponse(response) {",
            "  // Modify response to viewer">>
       \o LE_generateViewerResponseHandlers
       \o <<"  return response;",
            "}",
            "">>
       \o LE_generateHelperFunctions, "\n")

\* some location handler throws while the code is assembled
LE_AssembleThrows(cfg) ==
  \E i \in 1..Len(cfg.servers) : \E l \in 1..Len(cfg.servers[i].locations) :
     LE_LocationThrows(cfg.servers[i].locations[l])

\* the text generate() assembles once validation has passed
LE_Assemble(cfg) == Join(<<generateHeader, LE_generateLambdaCode(cfg)>>, "\n")

(***************************************************************************)
(* QuickJS generator (generators/quickjs.ts).                              *)
(***************************************************************************)

\* a check that only knows fastcgi_pass
QJ_LocationFindings_FastcgiOnly(location, index, locIndex) ==
  [warnings |-> <<>>,
   errors |->
     (IF Truthy(location.directives, "fastcgi_pass")
        THEN <<"Server " \o ToString(index) \o ", Location " \o ToString(locIndex)
                 \o ": FastCGI/uWSGI not supported in QuickJS environments">>
        ELSE <<>>)]

\* the errors and warnings pushed for one location
QJ_LocationFindings(location, index, locIndex) ==
  [warnings |->
     (IF Truthy(location.directives, "root") \/ Truthy(location.directives, "alias")
        THEN <<"Server " \o ToString(index) \o ", Location " \o ToString(locIndex)
                 \o ": Static file serving requires platform-specific configuration">>
        ELSE <<>>)
     \o
     (IF Truthy(location.directives, "proxy_pass")
        THEN <<"Server " \o ToString(index) \o ", Location " \o ToString(locIndex)
                 \o ": QuickJS has memory constraints - optimize for minimal allocations">>
        ELSE <<>>),
   errors |->
     (IF Truthy(location.directives, "fastcgi_pass") \/ Truthy(location.directives, "uwsgi_pass")
        THEN <<"Server " \o ToString(index) \o ", Location " \o ToString(locIndex)
                 \o ": FastCGI/uWSGI not supported in QuickJS environments">>
        ELSE <<>>)
     \o
     (IF Truthy(location.directives, "proxy_pass")
         /\ Includes(location.directives["proxy_pass"], "fs.")
        THEN <<"Server " \o ToString(index) \o ", Location " \o ToString(locIndex)
                 \o ": Node.js filesystem APIs not available in QuickJS">>
        ELSE <<>>)]

RECURSIVE QJ_LocationsLoop(_, _, _, _)
\* server.locations.forEach from 0-based locIndex on, acc the findings so far
QJ_LocationsLoop(server, index, locIndex, acc) ==
  IF locIndex >= Len(server.locations) THEN acc
  ELSE LET f == QJ_LocationFindings(server.locations[locIndex + 1], index, locIndex)
       IN QJ_LocationsLoop(server, index, locIndex + 1,
                           [warnings |-> acc.warnings \o f.warnings,
                            errors |-> acc.errors \o f.errors])

RECURSIVE QJ_ServersLoop(_, _, _)
\* this.config.servers.forEach from 0-based index on
QJ_ServersLoop(cfg, index, acc) ==
  IF index >= Len(cfg.servers) THEN acc
  ELSE QJ_ServersLoop(cfg, index + 1,
         QJ_LocationsLoop(cfg.servers[index + 1], index, 0,
           [warnings |-> acc.warnings \o
              (IF SslCertificate(cfg.servers[index + 1])
                 THEN <<"Server " \o ToString(index)
                          \o ": SSL certificates are typically managed by the edge platform, not in QuickJS functions">>
                 ELSE <<>>),
            errors |-> acc.errors]))

QJ_validatePlatformSpecific(cfg) ==
  QJ_ServersLoop(cfg, 0, [warnings |-> <<>>, errors |-> <<>>])

QJ_generateHostCondition(hostPatterns) ==
  IF ArrayIncludes(hostPatterns, "*") \/ Len(hostPatterns) = 0 THEN "true"
  ELSE Join([i \in 1..Len(hostPatterns) |->
               IF Includes(hostPatterns[i], "*")
                 THEN "hostname.match(/^"
                        \o ReplaceAll(ReplaceAll(hostPatterns[i], "*", ".*"), ".", "\\.")
                        \o "$/)"
                 ELSE "hostname === \"" \o hostPatterns[i] \o "\""], " || ")

QJ_convertNginxPathToJs(path) ==
  IF path = "/" THEN "context.pathname === \"/\" || context.pathname.startsWith(\"/\")"
  ELSE IF Includes(path, "~")
    THEN "context.pathname.match(/" \o ReplaceFirst(ReplaceFirst(path, "~*", ""), "~", "") \o "/)"
  ELSE IF StartsWith(path, "=")
    THEN "context.pathname === \"" \o Substring(path, 1) \o "\""
  ELSE "matchesPath(context.pathname, \"" \o path \o "\")"

QJ_generateReturnHandler(returnDirective, indent) ==
  LET code == returnDirective.code
      url  == IF Has(returnDirective, "url") THEN returnDirective.url ELSE ""
  IN IF code >= 300 /\ code < 400 /\ url # ""
       THEN <<indent \o "// Redirect " \o NumToString(code) \o " to " \o url,
              indent \o "return createRedirect(" \o NumToString(code) \o ", \"" \o url \o "\");">>
       ELSE <<indent \o "// Return " \o NumToString(code),
              indent \o "return createResponse(" \o NumToString(code) \o ", \""
                \o (IF url # "" THEN url ELSE getStatusDescription(code)) \o "\");">>

\* the nginx variables of a proxy_set_header value, replaced in the order of the code
QJ_HeaderValue(value) ==
  ReplaceAll(
    ReplaceAll(
      ReplaceAll(value, "$host", "context.hostname"),
      "$remote_addr", "context.headers[\"x-forwarded-for\"] || \"unknown\""),
    "$proxy_add_x_forwarded_for", "context.headers[\"x-forwarded-for\"] || \"unknown\"")

QJ_ProxyHeaderLines(location, indent) ==
  IF Has(location.directives, "proxy_set_header")
    THEN LET hs == location.directives["proxy_set_header"]
             keys == KeysOf(DOMAIN hs)
         IN <<indent, indent \o "// Set proxy headers">> \o
            [i \in 1..Len(keys) |->
               IF Includes(QJ_HeaderValue(hs[keys[i]]), "context.")
                 THEN indent \o "proxyHeaders[\"" \o ToLowerCase(keys[i]) \o "\"] = "
                        \o QJ_HeaderValue(hs[keys[i]]) \o ";"
                 ELSE indent \o "proxyHeaders[\"" \o ToLowerCase(keys[i]) \o "\"] = \""
                        \o QJ_HeaderValue(hs[keys[i]]) \o "\";"]
    ELSE <<>>

QJ_generateProxyHandler(proxyPass, location, indent) ==
  LET upstreamUrl == ParseURL(StripVariables(proxyPass)) IN
  <<indent \o "// Proxy to: " \o proxyPass>> \o
  (IF upstreamUrl.ok
     THEN <<indent \o "// Upstream configuration",
            indent \o "const upstream = {",
            indent \o "  host: '" \o upstreamUrl.hostname \o "',",
            indent \o "  port: " \o UpstreamPort(upstreamUrl) \o ",",
            indent \o "  protocol: '" \o upstreamUrl.protocol \o "',",
            indent \o "  path: '" \o upstreamUrl.pathname \o "'",
            indent \o "};",
            indent,
            indent \o "// Build proxy request (QuickJS optimized)",
            indent \o "const proxyUrl = buildProxyUrl(upstream, context.pathname);",
            indent \o "const proxyHeaders = Object.assign({}, context.headers);">>
          \o QJ_ProxyHeaderLines(location, indent)
          \o <<indent,
               indent \o "// Execute proxy request (platform-specific implementation needed)",
               indent \o "return proxyRequest(proxyUrl, context.method, proxyHeaders, request.body);">>
     ELSE <<indent \o "// Invalid proxy URL: " \o proxyPass,
            indent \o "return createResponse(502, \"Bad Gateway - Invalid upstream URL\");">>)

\* JSON.stringify of a string without characters that need escaping
JsonString(str) == "\"" \o str \o "\""

\* JSON.stringify of one RewriteRule
JsonRule(rule) ==
  "{\"regex\":" \o JsonString(rule.regex) \o ",\"replacement\":" \o JsonString(rule.replacement)
  \o (IF Has(rule, "flags")
        THEN ",\"flags\":[" \o Join([i \in 1..Len(rule.flags) |-> JsonString(rule.flags[i])], ",")
               \o "]"
        ELSE "")
  \o "}"

\* the rewrite directive is an array of rules: the typeof 'string' branch is not taken
QJ_generateRewriteHandler(rewriteRule, indent) ==
  <<indent \o "// Complex rewrite rule - implement based on platform needs",
    indent \o "// [" \o Join([i \in 1..Len(rewriteRule) |-> JsonRule(rewriteRule[i])], ",") \o "]">>

\* the handler lines of one location: return, else proxy_pass, else rewrite
QJ_LocationAction(location, indent) ==
  IF Has(location.directives, "return")
    THEN QJ_generateReturnHandler(location.directives["return"], indent)
  ELSE IF Truthy(location.directives, "proxy_pass")
    THEN QJ_generateProxyHandler(location.directives["proxy_pass"], location, indent)
  ELSE IF Has(location.directives, "rewrite")
    THEN QJ_generateRewriteHandler(location.directives["rewrite"], indent)
  ELSE <<>>

QJ_LocationBlock(location, indent) ==
  <<indent \o "// Location: " \o location.path,
    indent \o "if (" \o QJ_convertNginxPathToJs(location.path) \o ") {">>
  \o QJ_LocationAction(location, indent \o "  ")
  \o <<indent \o "}">>

\* locations.forEach: declaration order
QJ_EmittedLocations(locations) == locations

QJ_generateLocationHandlers(locations, indent) ==
  ConcatAll([i \in 1..Len(QJ_EmittedLocations(locations)) |->
               QJ_LocationBlock(QJ_EmittedLocations(locations)[i], indent)])

QJ_ServerBlock(server, index) ==
  <<"  // Server block " \o ToString(index + 1),
    "  if (" \o QJ_generateHostCondition(extractHostPatterns(server)) \o ") {">>
  \o QJ_generateLocationHandlers(server.locations, "    ")
  \o <<"  }", "">>

QJ_generateServerHandlers(cfg) ==
  ConcatAll([i \in 1..Len(cfg.servers) |-> QJ_ServerBlock(cfg.servers[i], i - 1)])

QJ_generateHelperFunctions ==
  <<"// QuickJS-optimized helper functions",
    "// Minimal memory allocation, fast execution",
    "",
    "function createResponse(status, body, headers) {",
    "  headers = headers || {};",
    "  return {",
    "    status: status,",
    "    statusText: getStatusText(status),",
    "    headers: headers,",
    "    body: body",
    "  };",
    "}",
    "",
    "function createRedirect(status, location) {",
    "  return {",
    "    status: status,",
    "    statusText: getStatusText(status),",
    "    headers: {",
    "      'location': location",
    "    },",
    "    body: ''",
    "  };",
    "}",
    "",
    "function getStatusText(status) {",
    "  // Minimal status text mapping for QuickJS",
    "  const statusTexts = {",
    "    200: 'OK',",
    "    301: 'Moved Permanently',",
    "    302: 'Found',",
    "    400: 'Bad Request',",
    "    401: 'Unauthorized',",
    "    403: 'Forbidden',",
    "    404: 'Not Found',",
    "    500: 'Internal Server Error',",
    "    502: 'Bad Gateway',",
    "    503: 'Service Unavailable'",
    "  };",
    "  return statusTexts[status] || 'Unknown';",
    "}",
    "",
    "function matchesPath(pathname, pattern) {",
    "  if (pattern === '/') return true;",
    "  if (pattern.endsWith('/')) {",
    "    return pathname.startsWith(pattern);",
    "  }",
    "  return pathname === pattern || pathname.startsWith(pattern + '/');",
    "}",
    "",
    "function buildProxyUrl(upstream, pathname) {",
    "  // Efficient URL building for QuickJS",
    "  let path = upstream.path;",
    "  if (path === '/' || path === '') {",
    "    path = pathname;",
    "  } else {",
    "    path = path + pathname;",
    "  }",
    "  ",
    "  const port = (upstream.port === 80 && upstream.protocol === 'http:') ||",
    "               (upstream.port === 443 && upstream.protocol === 'https:') ? '' : ':' + upstream.port;",
    "  ",
    "  return upstream.protocol + '//' + upstream.host + port + path;",
    "}",
    "",
    "function applyRewrite(pathname, rule) {",
    "  // Basic rewrite implementation - extend based on needs",
    "  // QuickJS has limited regex support, so keep it simple",
    "  try {",
    "    // Handle simple prefix replacements",
    "    if (rule.includes('^')) {",
    "      // This would need platform-specific regex implementation",
    "      return pathname;",
    "    }",
    "    return pathname;",
    "  } catch (e) {",
    "    return pathname;",
    "  }",
    "}",
    "",
    "// Platform-specific proxy implementation placeholder",
    "// Each QuickJS platform (Fastly, Lagon, etc.) would implement this differently",
    "function proxyRequest(url, method, headers, body) {",
    "  // This function should be implemented by the target platform:",
    "  // - Fastly Compute@Edge: use fastly.fetch()",
    "  // - Lagon: use platform fetch API",
    "  // - Supabase Edge Functions: use Deno fetch()",
    "  // - WasmEdge: use WASI HTTP client",
    "  ",
    "  throw new Error('proxyRequest must be implemented by target platform');",
    "}",
    "",
    "// Export the main handler for platform integration",
    "// Platform-specific wrapper would call this function",
    "if (typeof module !== 'undefined' && module.exports) {",
    "  module.exports = { handleRequest };",
    "} else if (typeof globalThis !== 'undefined') {",
    "  globalThis.handleRequest = handleRequest;",
    "}">>

QJ_generateQuickJSCode(cfg) ==
  Join(<<"// QuickJS-compatible edge function",
         "// Optimized for minimal memory usage and fast startup",
         "",
         "function handleRequest(request) {",
         "  const url = new URL(request.url);",
         "  const hostname = url.hostname;",
         "  const pathname = url.pathname;",
         "",
         "  // Request context for QuickJS environments",
         "  const context = {",
         "    url: url,",
         "    hostname: hostname,",
         "    pathname: pathname,",
         "    method: request.method || 'GET',",
         "    headers: request.headers || {}",
         "  };",
         "">>
       \o QJ_generateServerHandlers(cfg)
       \o <<"",
            "  // Default response",
            "  return createResponse(404, 'Not Found');",
            "}",
            "">>
       \o QJ_generateHelperFunctions, "\n")

\* the text generate() assembles once validation has passed
QJ_Assemble(cfg) == Join(<<generateHeader, QJ_generateQuickJSCode(cfg)>>, "\n")

(***************************************************************************)
(* validate() and generate().                                              *)
(***************************************************************************)

validatePlatformSpecific(g, cfg) ==
  CASE g = "cloudflare"  -> CF_validatePlatformSpecific(cfg)
    [] g = "nextjs"      -> NX_validatePlatformSpecific(cfg)
    [] g = "lambda-edge" -> LE_validatePlatformSpecific(cfg)
    [] g = "quickjs"     -> QJ_validatePlatformSpecific(cfg)

\* shared structural checks plus the platform-specific check; warnings never
\* make a configuration invalid
validate(g, cfg) ==
  LET platform == validatePlatformSpecific(g, cfg)
      warnings == (IF Len(cfg.servers) = 0
                     THEN <<"No server blocks found in configuration">> ELSE <<>>)
                  \o platform.warnings
  IN [valid |-> Len(platform.errors) = 0, errors |-> platform.errors, warnings |-> warnings]

\* results of generate(): a returned string or a thrown Error
Returned(text) == [kind |-> "text", text |-> text, message |-> ""]
Threw(message) == [kind |-> "threw", text |-> "", message |-> message]
NoOutput == [kind |-> "none", text |-> "", message |-> ""]

\* warnings are treated as fatal too
CF_generate_WarningsFatal(cfg) ==
  LET validation_ == validate("cloudflare", cfg) IN
  IF ~validation_.valid \/ Len(validation_.warnings) > 0
    THEN Threw("Validation failed: " \o Join(validation_.errors, ", "))
    ELSE Returned(CF_Assemble(cfg))

CF_generate(cfg) ==
  LET validation_ == validate("cloudflare", cfg) IN
  IF ~validation_.valid
    THEN Threw("Validation failed: " \o Join(validation_.errors, ", "))
    ELSE Returned(CF_Assemble(cfg))

NX_generate(cfg) ==
  LET validation_ == validate("nextjs", cfg) IN
  IF ~validation_.valid
    THEN Threw("Validation failed: " \o Join(validation_.errors, ", "))
    ELSE Returned(NX_Assemble(cfg))

\* the message names the first validation error only
LE_generate_FirstErrorOnly(cfg) ==
  LET validation_ == validate("lambda-edge", cfg) IN
  IF ~validation_.valid
    THEN Threw("Validation failed: " \o validation_.errors[1])
  ELSE IF LE_AssembleThrows(cfg) THEN Threw("Invalid URL")
  ELSE Returned(LE_Assemble(cfg))

\* new URL(...) in generateProxyHandler is not caught: its TypeError leaves generate()
LE_generate(cfg) ==
  LET validation_ == validate("lambda-edge", cfg) IN
  IF ~validation_.valid
    THEN Threw("Validation failed: " \o Join(validation_.errors, ", "))
  ELSE IF LE_AssembleThrows(cfg) THEN Threw("Invalid URL")
  ELSE Returned(LE_Assemble(cfg))

QJ_generate(cfg) ==
  LET validation_ == validate("quickjs", cfg) IN
  IF ~validation_.valid
    THEN Threw("Validation failed: " \o Join(validation_.errors, ", "))
    ELSE Returned(QJ_Assemble(cfg))

generate(g, cfg) ==
  CASE g = "cloudflare"  -> CF_generate(cfg)
    [] g = "nextjs"      -> NX_generate(cfg)
    [] g = "lambda-edge" -> LE_generate(cfg)
    [] g = "quickjs"     -> QJ_generate(cfg)

\* per-generator dispatch of the pieces the properties look at
EmittedLocations(g, locations) ==
  CASE g = "cloudflare"  -> CF_EmittedLocations(locations)
    [] g = "nextjs"      -> NX_EmittedLocations(locations)
    [] g = "lambda-edge" -> LE_EmittedLocations(locations)
    [] g = "quickjs"     -> QJ_EmittedLocations(locations)

LocationBlock(g, location, indent) ==
  CASE g = "cloudflare"  -> CF_LocationBlock(location, indent)
    [] g = "nextjs"      -> NX_LocationBlock(location, indent)
    [] g = "lambda-edge" -> LE_LocationBlock(location, indent)
    [] g = "quickjs"     -> QJ_LocationBlock(location, indent)

ServerBlock(g, server, index) ==
  CASE g = "cloudflare"  -> CF_ServerBlock(server, index)
    [] g = "nextjs"      -> NX_ServerBlock(server, index)
    [] g = "lambda-edge" -> LE_ServerBlock(server, index)
    [] g = "quickjs"     -> QJ_ServerBlock(server, index)

\* the expression the emitted code tests the request path with
PathSubject(g) ==
  CASE g = "cloudflare"  -> "url.pathname"
    [] g = "nextjs"      -> "url.pathname"
    [] g = "lambda-edge" -> "uri"
    [] g = "quickjs"     -> "context.pathname"

(***************************************************************************)
(* Run-time meaning of the emitted conditions: the JavaScript operators    *)
(* the templates use (===, ||, startsWith, match with a regex literal) and *)
(* the emitted helper matchesPath.  Regex literals: characters, '.',       *)
(* backslash escapes, the quantifiers * + ? on one atom, and ^ $ anchors.  *)
(***************************************************************************)

RECURSIVE Split(_, _)
\* String.prototype.split with a non-empty separator
Split(s, sep) ==
  IF IndexOf(s, sep) = 0 THEN <<s>>
  ELSE <<SubSeq(s, 1, IndexOf(s, sep) - 1)>>
       \o Split(SubSeq(s, IndexOf(s, sep) + Len(sep), Len(s)), sep)

\* term is prefix, some text, suffix
IsForm(term, prefix, suffix) ==
  Len(term) >= Len(prefix) + Len(suffix) /\ StartsWith(term, prefix) /\ EndsWith(term, suffix)

\* the text between prefix and suffix
Between(term, prefix, suffix) == SubSeq(term, Len(prefix) + 1, Len(term) - Len(suffix))

\* one character c against one regex atom
AtomMatches(atom, c) ==
  IF atom = "." THEN TRUE
  ELSE IF Len(atom) = 2
    THEN (IF atom = "\\d" THEN c \in Digits ELSE c = SubSeq(atom, 2, 2))
  ELSE c = atom

RECURSIVE RegexMatchHere(_, _)
\* the regex body re matches the whole of s
RegexMatchHere(re, s) ==
  IF re = "" THEN s = ""
  ELSE LET n    == IF Head(re) = "\\" THEN 2 ELSE 1
           atom == SubSeq(re, 1, n)
           q    == IF Len(re) > n THEN SubSeq(re, n + 1, n + 1) ELSE ""
           run(k) == \A j \in 1..k : AtomMatches(atom, SubSeq(s, j, j))
       IN IF q = "*"
            THEN \E k \in 0..Len(s) :
                   run(k) /\ RegexMatchHere(SubSeq(re, n + 2, Len(re)), SubSeq(s, k + 1, Len(s)))
          ELSE IF q = "+"
            THEN \E k \in 1..Len(s) :
                   run(k) /\ RegexMatchHere(SubSeq(re, n + 2, Len(re)), SubSeq(s, k + 1, Len(s)))
          ELSE IF q = "?"
            THEN \E k \in 0..(IF Len(s) > 0 THEN 1 ELSE 0) :
                   run(k) /\ RegexMatchHere(SubSeq(re, n + 2, Len(re)), SubSeq(s, k + 1, Len(s)))
          ELSE s # "" /\ AtomMatches(atom, Head(s))
               /\ RegexMatchHere(SubSeq(re, n + 1, Len(re)), Tail(s))

\* s.match(/re/) is not null
RegexTest(re, s) ==
  LET atStart == StartsWith(re, "^")
      atEnd   == EndsWith(re, "$") /\ ~EndsWith(re, "\\$")
      core    == SubSeq(re, IF atStart THEN 2 ELSE 1, IF atEnd THEN Len(re) - 1 ELSE Len(re))
  IN \E i \in 1..(Len(s) + 1) : \E j \in (i - 1)..Len(s) :
       /\ atStart => i = 1
       /\ atEnd => j = Len(s)
       /\ RegexMatchHere(core, SubSeq(s, i, j))

\* the emitted helper function matchesPath(uri, pattern)
MatchesPath(uri, pattern) ==
  IF pattern = "/" THEN TRUE
  ELSE IF EndsWith(pattern, "/") THEN StartsWith(uri, pattern)
  ELSE uri = pattern \/ StartsWith(uri, pattern \o "/")

\* one operand of || evaluated with the subject expression bound to value
EvalTerm(term, subject, value) ==
  CASE term = "true" -> TRUE
    [] IsForm(term, subject \o " === \"", "\"") ->
         value = Between(term, subject \o " === \"", "\"")
    [] IsForm(term, subject \o ".startsWith(\"", "\")") ->
         StartsWith(value, Between(term, subject \o ".startsWith(\"", "\")"))
    [] IsForm(term, subject \o ".match(/", "/i)") ->
         RegexTest(ToLowerCase(Between(term, subject \o ".match(/", "/i)")), ToLowerCase(value))
    [] IsForm(term, subject \o ".match(/", "/)") ->
         RegexTest(Between(term, subject \o ".match(/", "/)"), value)
    [] IsForm(term, "matchesPath(" \o subject \o ", \"", "\")") ->
         MatchesPath(value, Between(term, "matchesPath(" \o subject \o ", \"", "\")"))
    [] OTHER -> FALSE

\* an emitted condition a || b || ... evaluated with the subject bound to value
EvalCondition(text, subject, value) ==
  LET terms == Split(text, " || ") IN
  \E i \in 1..Len(terms) : EvalTerm(terms[i], subject, value)

\* the condition inside the "if (...) {" line of an emitted block
ConditionOf(line, indent) == Between(line, indent \o "if (", ") {")

\* the emitted path condition of a location holds for the request path
LocationMatches(g, location, path) ==
  EvalCondition(ConditionOf(LocationBlock(g, location, "    ")[2], "    "), PathSubject(g), path)

\* position, in emitted order, of the first location block of the server whose
\* condition holds for the request path; 0 when none does
FirstEntered(g, server, path) ==
  LET emitted == EmittedLocations(g, server.locations)
      hits == {k \in 1..Len(emitted) : LocationMatches(g, emitted[k], path)}
  IN IF hits = {} THEN 0 ELSE CHOOSE k \in hits : \A j \in hits : k <= j

(***************************************************************************)
(* Inputs.  A run starts either from a parse result of the external parser *)
(* (the CLI path, through the builder) or from a configuration model       *)
(* handed to a generator directly (the library path, e.g. a model made by  *)
(* ConfigTransformer, which sets location modifiers and passes other       *)
(* directives through).                                                    *)
(***************************************************************************)

MaxLocations == 2
MaxServers == 2
MaxLocDirectives == 3
MaxClock == 1
MaxListens == 2
MaxTopLevel == 3
MaxBatch == 2

\* all sequences over S of length at most n
SeqsUpTo(S, n) == UNION {[1..k -> S] : k \in 0..n}

Dir(name, args) == [directive |-> name, args |-> args]
Blk(name, args, block) == [directive |-> name, args |-> args, block |-> block]

\* directives inside a location block of the parsed file
LocationDirectiveAtoms ==
  {Dir("add_header", <<"X-A", "one">>),
   Dir("add_header", <<"X-A", "two">>),
   Dir("add_header", <<"X-B", "three">>),
   Dir("proxy_pass", <<"http://backend:3000">>)}

\* http { server { listen 80; server_name example.com; location /static { ... } } }
HeaderTrees ==
  {<<Blk("http", <<>>,
         <<Blk("server", <<>>,
               <<Dir("listen", <<"80">>),
                 Dir("server_name", <<"example.com">>),
                 Blk("location", <<"/static">>, b)>>)>>)>> :
     b \in SeqsUpTo(LocationDirectiveAtoms, MaxLocDirectives)}

ProxyLocationNode(path, target) ==
  Blk("location", <<path>>, <<Dir("proxy_pass", <<target>>)>>)

ServerNode(name, locations) ==
  Blk("server", <<>>, <<Dir("listen", <<"80">>), Dir("server_name", <<name>>)>> \o locations)

StructureTrees ==
  {<<>>,
   <<Dir("user", <<"nginx">>)>>,
   <<Blk("events", <<>>, <<Dir("worker_connections", <<"1024">>)>>)>>,
   <<Dir("user", <<"nginx">>), Blk("events", <<>>, <<>>)>>,
   <<Blk("http", <<>>, <<>>)>>,
   <<Blk("http", <<>>, <<Blk("upstream", <<"backend">>, <<Dir("server", <<"10.0.0.1:3000">>)>>)>>)>>,
   <<ServerNode("example.com", <<ProxyLocationNode("/", "http://backend:3000")>>)>>,
   <<Blk("http", <<>>,
         <<ServerNode("example.com", <<ProxyLocationNode("/", "http://backend:3000"),
                                       ProxyLocationNode("/api", "http://api-backend:8080")>>)>>)>>,
   <<Blk("http", <<>>,
         <<ServerNode("old-site.com",
             <<Blk("location", <<"/">>,
                   <<Dir("return", <<"301", "https://new-site.com$request_uri">>)>>)>>)>>)>>,
   <<Blk("http", <<>>,
         <<ServerNode("site1.com",
             <<Blk("location", <<"/">>, <<Dir("root", <<"/var/www/site1">>)>>)>>),
           ServerNode("site2.com",
             <<Blk("location", <<"/">>, <<Dir("root", <<"/var/www/site2">>)>>)>>)>>)>>}

\* argument lists of a listen directive: none, an empty first argument, ports,
\* a port with a flag, and first arguments that are no integer
ListenArgs ==
  {<<>>, <<"">>, <<"80">>, <<"8080">>, <<"443", "ssl">>, <<"abc">>, <<"[::]:80">>}

\* server { listen ...; listen ...; }
ListenTrees ==
  {<<Blk("server", <<>>, [i \in 1..Len(a) |-> Dir("listen", a[i])])>> :
     a \in SeqsUpTo(ListenArgs, MaxListens)}

\* top-level nodes: a server with interleaved listen and location directives,
\* an http block with two servers around an upstream, a server inside a
\* stream block, a simple directive, and a server directive without a block
OrderAtoms ==
  {Blk("server", <<>>,
       <<Blk("location", <<"/b">>, <<Dir("root", <<"/var/www/b">>)>>),
         Dir("listen", <<"8080">>),
         Dir("server_name", <<"top.example.com">>),
         ProxyLocationNode("/a", "http://backend:3000"),
         Dir("listen", <<"80">>)>>),
   Blk("http", <<>>,
       <<ServerNode("first.example.com", <<ProxyLocationNode("/", "http://backend:3000")>>),
         Blk("upstream", <<"backend">>, <<Dir("server", <<"10.0.0.1:3000">>)>>),
         ServerNode("second.example.com", <<>>)>>),
   Blk("stream", <<>>, <<ServerNode("nested.example.com", <<>>)>>),
   Dir("user", <<"nginx">>),
   Dir("server", <<>>)}

OrderTrees == SeqsUpTo(OrderAtoms, MaxTopLevel)

\* the tokens nginx accepts between 'location' and the path
ModifierTokens == {"=", "~", "~*", "^~"}

\* argument lists of a location directive: a path alone, each modifier token
\* followed by a path, a modifier written together with the path, and none
LocationArgs ==
  {<<"/x">>, <<"=", "/x">>, <<"~", "^/php/">>, <<"~*", "^/img/">>, <<"^~", "/static/">>,
   <<"=/x">>, <<>>}

\* blocks of a location directive with directives the switch of the builder
\* has a case for and directives it has none for
LocationBodies ==
  {<<>>,
   <<Dir("proxy_pass", <<"http://backend:3000">>)>>,
   <<Dir("fastcgi_pass", <<"127.0.0.1:9000">>)>>,
   <<Dir("uwsgi_pass", <<"127.0.0.1:3031">>), Dir("root", <<"/var/www">>)>>,
   <<Dir("index", <<"index.html">>), Dir("proxy_pass", <<"http://backend:3000">>),
     Dir("proxy_set_header", <<"Host", "$host">>)>>}

\* server { listen 80; server_name example.com; location <args> { <body> } }
LocationTrees ==
  {<<ServerNode("example.com", <<Blk("location", a, b)>>)>> :
     a \in LocationArgs, b \in LocationBodies}

ParseResults ==
  {[config |-> <<>>]} \cup
  {[config |-> <<[parsed |-> t]>>] :
     t \in HeaderTrees \cup StructureTrees \cup ListenTrees \cup OrderTrees
             \cup LocationTrees}

Loc(path, modifier, directives) ==
  IF modifier = "" THEN [path |-> path, directives |-> directives]
  ELSE [path |-> path, modifier |-> modifier, directives |-> directives]

Srv(names, locations) ==
  [listen |-> <<[port |-> 80]>>, server_name |-> names, locations |-> locations]

Cfg(servers) == [servers |-> servers, upstreams |-> <<>>, global |-> EmptyObject]

\* one server; prefix and exact locations in every declaration order
MatchLocations ==
  {Loc(p, m, [proxy_pass |-> "http://backend:3000"]) : p \in {"/", "/api", "/x"}, m \in {"", "="}}

MatchConfigs ==
  {Cfg(<<Srv(<<"example.com">>, locs)>>) : locs \in SeqsUpTo(MatchLocations, MaxLocations)}

\* servers that differ in their server_name list
HostNameLists ==
  {<<>>, <<"*">>, <<"example.com">>, <<"api.example.com">>, <<"example.com", "*">>,
   <<"*.example.com">>, <<"example.com", "api.example.com">>}

HostServers ==
  {Srv(n, <<Loc("/", "", [proxy_pass |-> "http://backend:3000"])>>) : n \in HostNameLists}
  \cup {[listen |-> <<[port |-> 80]>>,
         locations |-> <<Loc("/", "", [proxy_pass |-> "http://backend:3000"])>>]}

HostConfigs == {Cfg(s) : s \in SeqsUpTo(HostServers, MaxServers)}

\* servers with constructs a target refuses (errors) or degrades (warnings)
ValidationServers ==
  {Srv(<<"php.example.com">>,
       <<Loc("/php", "", [fastcgi_pass |-> "127.0.0.1:9000"]),
         Loc("/", "", [proxy_pass |-> "http://backend:3000"])>>),
   Srv(<<"app.example.com">>, <<Loc("/app", "", [uwsgi_pass |-> "127.0.0.1:3031"])>>),
   Srv(<<"both.example.com">>,
       <<Loc("/php", "", [fastcgi_pass |-> "127.0.0.1:9000"]),
         Loc("/app", "", [uwsgi_pass |-> "127.0.0.1:3031"])>>),
   Srv(<<"one.example.com">>,
       <<Loc("/cgi", "", [fastcgi_pass |-> "127.0.0.1:9000", uwsgi_pass |-> "127.0.0.1:3031"])>>),
   Srv(<<"bad.example.com">>, <<Loc("/bad", "", [proxy_pass |-> "backend"])>>),
   Srv(<<"var.example.com">>,
       <<Loc("/var", "", [proxy_pass |-> "$upstream"]),
         Loc("/ok", "", [proxy_pass |-> "http://backend:3000"])>>),
   Srv(<<"fs.example.com">>, <<Loc("/fs", "", [proxy_pass |-> "http://fs.internal:8080"])>>),
   [listen |-> <<[port |-> 443]>>, server_name |-> <<"soft.example.com">>,
    ssl |-> [certificate |-> "/etc/ssl/cert.pem"],
    locations |-> <<Loc("/static", "", [root |-> "/var/www", expires |-> "1y"]),
                    Loc("/", "", [proxy_pass |-> "http://backend:3000"])>>]}

ValidationConfigs == {Cfg(s) : s \in SeqsUpTo(ValidationServers, MaxServers)}

RedirectTarget == "https://new.example.com$request_uri"

\* locations that differ in the action their directives ask for
ActionLocations ==
  {Loc("/old", "", [return |-> [code |-> 301, url |-> RedirectTarget]]),
   Loc("/old", "=", [return |-> [code |-> 301, url |-> RedirectTarget],
                     proxy_pass |-> "http://backend:3000"]),
   Loc("/tmp", "", [return |-> [code |-> 302, url |-> "/moved"]]),
   Loc("/gone", "", [return |-> [code |-> 404]]),
   Loc("/api", "", [proxy_pass |-> "http://backend:3000"]),
   Loc("/static/", "", [root |-> "/var/www"]),
   Loc("/", "", [add_header |-> [Vary |-> "Accept"]])}

ActionConfigs ==
  {Cfg(<<Srv(<<"example.com">>, locs)>>) : locs \in SeqsUpTo(ActionLocations, MaxLocations)}

\* single no-modifier locations whose path is plain, ends in '/', starts with
\* '=' or contains '~'
PrefixPaths == {"/api", "/static/", "=/x", "/~user"}

PrefixConfigs ==
  {Cfg(<<Srv(<<"example.com">>, <<Loc(p, "", [proxy_pass |-> "http://backend:3000"])>>)>>) :
     p \in PrefixPaths}

\* one rewrite rule of a location
Rule(regex, replacement, flags) == [regex |-> regex, replacement |-> replacement, flags |-> flags]

\* locations whose directives meet in one block: a non-redirect return next to
\* a proxy_pass, a redirect without target, alias, no directive at all,
\* rewrite rules with and without a redirecting flag, and a response header
\* next to a proxy_pass
RuleLocations ==
  {Loc("/gone", "", [return |-> [code |-> 404], proxy_pass |-> "http://backend:3000"]),
   Loc("/moved", "", [return |-> [code |-> 301]]),
   Loc("/files", "", [alias |-> "/srv/files"]),
   [path |-> "/none", directives |-> EmptyObject],
   Loc("/blog", "", [rewrite |-> <<Rule("^/blog/(.*)$", "/posts/$1", <<"permanent">>)>>,
                     proxy_pass |-> "http://backend:3000"]),
   Loc("/r", "", [rewrite |-> <<Rule("^/r/a$", "/a", <<"redirect">>),
                                Rule("^/r/b$", "/b", <<"last">>)>>]),
   Loc("/p", "", [rewrite |-> <<[regex |-> "^/p/(.*)$", replacement |-> "/q/$1"]>>,
                  proxy_pass |-> "http://backend:3000"]),
   Loc("/docs", "", [add_header |-> [Vary |-> "Accept"],
                     proxy_pass |-> "http://backend:3000"])}

RuleConfigs ==
  {Cfg(<<Srv(<<"example.com">>, <<l>>)>>) : l \in RuleLocations}

ModelConfigs ==
  MatchConfigs \cup HostConfigs \cup ValidationConfigs \cup ActionConfigs \cup PrefixConfigs
    \cup RuleConfigs

\* request paths the emitted location conditions are evaluated on
RequestPaths ==
  {"/", "/api", "/api/", "/api/users", "/apiary", "/static", "/static/", "/static/a.css",
   "/x", "/x/y", "=/x", "=/x/y", "/~user", "/~user/mail", "/user", "/other"}

\* host names the emitted conditions are evaluated on
Hostnames ==
  {"", "example.com", "EXAMPLE.com", "api.example.com", "other.org",
   "apiXexample.com", "example.org", ".example.com"}

(***************************************************************************)
(* nginx-to-UCL converter (converters/nginx-to-ucl-transformer.ts) and the  *)
(* crossplane parser wrapper it calls.  A file is known by what crossplane *)
(* and the transformer make of it.                                         *)
(***************************************************************************)

\* what a path can hold before a conversion
InputKinds ==
  {"absent", "unreadable", "syntax-error", "unknown-directive", "untransformable", "valid"}

InputPaths == {"a.conf", "b.conf"}

\* the explicit output files a caller asks for; writeFile is refused under ro/
OutputFiles == {"out/all.ucl", "ro/all.ucl"}

Writable(outputFile) == ~StartsWith(outputFile, "ro/")

RECURSIVE StripExtension(_)
\* path.basename(p, path.extname(p)) of a file name with an extension
StripExtension(p) ==
  IF p = "" THEN ""
  ELSE IF SubSeq(p, Len(p), Len(p)) = "." THEN SubSeq(p, 1, Len(p) - 1)
  ELSE StripExtension(SubSeq(p, 1, Len(p) - 1))

\* path.join(dir, `${basename}.ucl`) for a file in the working directory
DerivedOutputFile(configPath) ==
  (IF Includes(configPath, ".") THEN StripExtension(configPath) ELSE configPath) \o ".ucl"

AllPaths == InputPaths \cup OutputFiles \cup {DerivedOutputFile(p) : p \in InputPaths}

\* NginxParser.parseConfig: the parse result, or the NginxParseError it throws
parseConfig(fs, configPath, strict) ==
  CASE fs[configPath] = "absent" ->
         [ok |-> FALSE, message |-> "Configuration file not found: " \o configPath]
    [] fs[configPath] = "unreadable" ->
         [ok |-> FALSE, message |-> "Failed to parse nginx configuration: crossplane exited with code 1"]
    [] fs[configPath] = "syntax-error" \/ (strict /\ fs[configPath] = "unknown-directive") ->
         [ok |-> FALSE,
          message |-> "nginx configuration parsing failed:\n" \o configPath \o ":1: " \o fs[configPath]]
    [] OTHER ->
         [ok |-> TRUE, status |-> "ok", errors |-> <<>>,
          config |-> <<[file |-> configPath, kind |-> fs[configPath]]>>]

\* NginxParser.validateConfig
validateConfig(fs, configPath) ==
  LET result == parseConfig(fs, configPath, TRUE) IN
  IF result.ok
    THEN [valid |-> result.status = "ok" /\ Len(result.errors) = 0, errors |-> result.errors]
    ELSE [valid |-> FALSE,
          errors |-> <<[file |-> configPath, line |-> 0, error |-> result.message]>>]

\* NginxToUCLTransformer.transform: the UCL text, or the Error it throws
transform(parseResult_) ==
  IF parseResult_.config[1].kind = "untransformable"
    THEN [ok |-> FALSE, message |-> "Cannot transform directive"]
    ELSE [ok |-> TRUE, text |-> "# UCL of " \o parseResult_.config[1].file \o "\n"]

\* what writeOutput hands to writeFile
OutputContent(content, format) ==
  IF format = "json" THEN "{\"format\": \"nginx-to-ucl\", \"ucl\": " \o JsonString(content) \o "}"
  ELSE content

\* options[key] with a default for an omitted option
Option(options, key, dflt) == IF Has(options, key) THEN options[key] ELSE dflt

\* the result object convertFile starts with
NewResult == ("success" :> FALSE @@ "inputFiles" :> <<>> @@ "errors" :> <<>> @@ "warnings" :> <<>>)

NoRequest == [api |-> "none"]
NoCall == [pc |-> "idle"]
NoReturn == [kind |-> "none"]

\* no conversion has been asked for
ConverterIdle ==
  /\ fsys = [p \in AllPaths |-> "absent"]
  /\ request = NoRequest
  /\ call = NoCall
  /\ results = <<>>
  /\ returned = NoReturn
  /\ writes = <<>>

(***************************************************************************)
(* NginxParser.runCrossplane: the child process, its output, the promise   *)
(* the call returns and the 30-second timer.                               *)
(***************************************************************************)

\* characters of output the model lets the child write, and 'error' events
MaxStdout == 17
MaxStderr == 32
MaxErrors == 2

\* what a 'data' event of the child's stdout or stderr can carry
StdoutChunks == {"{\"status\":\"ok\"}", "\n"}
StderrChunks == {"nginx: [emerg] unexpected \"}\"", " "}

\* the code of a 'close' event; "null" when the child was ended by a signal
ExitCodes == {"0", "1", "null"}

\* the message of the Error of an 'error' event
ErrorMessages == {"spawn crossplane ENOENT", "kill EPERM"}

WhiteSpace == {" ", "\n"}

RECURSIVE TrimStart(_)
TrimStart(str) ==
  IF Len(str) > 0 /\ SubSeq(str, 1, 1) \in WhiteSpace
    THEN TrimStart(SubSeq(str, 2, Len(str))) ELSE str

RECURSIVE TrimEnd(_)
TrimEnd(str) ==
  IF Len(str) > 0 /\ SubSeq(str, Len(str), Len(str)) \in WhiteSpace
    THEN TrimEnd(SubSeq(str, 1, Len(str) - 1)) ELSE str

\* String.prototype.trim
Trim(str) == TrimEnd(TrimStart(str))

NoPromise == [state |-> "none", value |-> ""]

\* resolve(value) and reject(new Error(message)) of the promise's executor: only
\* the first call settles the promise
Resolve(p, value) ==
  IF p.state = "pending" THEN [state |-> "resolved", value |-> value] ELSE p

Reject(p, message) ==
  IF p.state = "pending" THEN [state |-> "rejected", value |-> message] ELSE p

\* process.on('close', (code) => { ... }): the first listener
CloseListener(p, code, out, err) ==
  IF code = "0" THEN Resolve(p, Trim(out))
  ELSE Reject(p, IF Trim(err) # "" THEN Trim(err)
                 ELSE "crossplane exited with code " \o code)

\* the second 'close' listener leaves the timer as it is
TimeoutAfterClose_NotCleared(t) == t

\* process.on('close', () => { clearTimeout(timeout); }): a timer that has
\* fired stays fired
TimeoutAfterClose(t) == IF t = "armed" THEN "cleared" ELSE t

ProcessIdle ==
  /\ child = "none"
  /\ stdout = ""
  /\ stderr = ""
  /\ promise = NoPromise
  /\ timeout = "none"
  /\ killed = FALSE
  /\ terminal = <<>>

GeneratorsIdle ==
  /\ parseResult = [config |-> <<>>]
  /\ config = Cfg(<<>>)
  /\ phase = "parsed"
  /\ clock = 0
  /\ gen = "none"
  /\ validation = [done |-> FALSE, valid |-> TRUE, errors |-> <<>>, warnings |-> <<>>]
  /\ output = NoOutput
  /\ prevOutput = NoOutput

(***************************************************************************)
(* UCLParser and the functions parseUCL and parseUCLFile.  The native      *)
(* library is known by counters of what it was asked to do; what a native  *)
(* call answers (a value, null/false, or an exception out of the binding)  *)
(* is an input.  ucl_parser_free and ucl_object_unref return nothing and   *)
(* are taken not to throw.                                                 *)
(***************************************************************************)

MaxOps == 4

NoLibrary == [parsers |-> 0, freed |-> 0, objects |-> 0, unrefs |-> 0, calls |-> 0]

\* the answers of ucl_parser_add_string/_file, ucl_parser_get_object,
\* ucl_object_emit and of JSON.parse/jsonPtr.toString during one parse
NativeAnswers ==
  [add : {"ok", "fail", "throw"}, get : {"obj", "null", "throw"},
   emit : {"json", "null", "throw"}, json : {"ok", "throw"}]

Success == [kind |-> "returned", success |-> TRUE, error |-> ""]
Failure(error) == [kind |-> "returned", success |-> FALSE, error |-> error]
Thrown(error) == [kind |-> "threw", success |-> FALSE, error |-> error]
NoCallYet == [op |-> "none", ret |-> [kind |-> "none", success |-> FALSE, error |-> ""]]

NativeCall(lib) == [lib EXCEPT !.calls = @ + 1]

\* ucl_object_unref(obj)
Unref(lib) == [NativeCall(lib) EXCEPT !.unrefs = @ + 1]

\* UCLParser.getResult(): <<library afterwards, result>>
UCLParser_getResult(lib, n) ==
  LET got == NativeCall(lib) IN
  IF n.get = "throw" THEN <<got, Thrown("ucl_parser_get_object")>>
  ELSE IF n.get = "null" THEN <<got, Failure("No object returned from parser")>>
  ELSE
    LET held == [got EXCEPT !.objects = @ + 1]
        emitted == NativeCall(held)
    IN IF n.emit = "throw" THEN <<Unref(emitted), Failure("JSON parse error: ucl_object_emit")>>
       ELSE IF n.emit = "null" THEN <<Unref(emitted), Failure("Failed to emit JSON")>>
       ELSE IF n.json = "throw"
         THEN <<Unref(emitted), Failure("JSON parse error: Unexpected token")>>
       ELSE <<Unref(emitted), Success>>

\* UCLParser.parseString(content) and parseFile(filename) on an object whose
\* parser field is p: <<library afterwards, result>>
UCLParser_parse(p, lib, n, unknown) ==
  IF p # "handle" THEN <<lib, Failure("Parser not initialized")>>
  ELSE
    LET added == NativeCall(lib) IN
    IF n.add = "throw" THEN <<added, Thrown("ucl_parser_add")>>
    ELSE IF n.add = "fail" THEN <<NativeCall(added), Failure(unknown)>>
    ELSE UCLParser_getResult(added, n)

UCLParser_parseString(p, lib, n) == UCLParser_parse(p, lib, n, "Unknown parse error")
UCLParser_parseFile(p, lib, n) == UCLParser_parse(p, lib, n, "Unknown file parse error")

\* destroy() frees the parser and keeps the handle in the field
UCLParser_destroy_KeepsHandle(p, lib) ==
  IF p = "handle"
    THEN <<[NativeCall(lib) EXCEPT !.freed = @ + 1], "handle">>
    ELSE <<lib, p>>

\* UCLParser.destroy(): <<library afterwards, parser field afterwards>>
UCLParser_destroy(p, lib) ==
  IF p = "handle"
    THEN <<[NativeCall(lib) EXCEPT !.freed = @ + 1], "null">>
    ELSE <<lib, p>>

\* new UCLParser(): <<library afterwards, parser field, constructed>>
UCLParser_constructor(lib, newOk) ==
  IF newOk THEN <<[NativeCall(lib) EXCEPT !.parsers = @ + 1], "handle", TRUE>>
  ELSE <<NativeCall(lib), "null", FALSE>>

\* parseUCL(content) and parseUCLFile(filePath): a parser of their own, the
\* parse in a try block, destroy() in its finally block; <<library, result>>
ParseWithOwnParser(lib, newOk, n, Parse(_, _, _), unknown) ==
  LET made == UCLParser_constructor(lib, newOk) IN
  IF ~made[3] THEN <<made[1], Thrown("Failed to create UCL parser")>>
  ELSE
    LET parsed == Parse(made[2], made[1], n)
        destroyed == UCLParser_destroy(made[2], parsed[1])
    IN <<destroyed[1],
         IF parsed[2].kind = "threw" THEN parsed[2]
         ELSE IF parsed[2].success THEN parsed[2]
         ELSE Thrown(IF parsed[2].error # "" THEN parsed[2].error ELSE unknown)>>

parseUCL(lib, newOk, n) ==
  ParseWithOwnParser(lib, newOk, n, UCLParser_parseString, "Unknown parsing error")

parseUCLFile(lib, newOk, n) ==
  ParseWithOwnParser(lib, newOk, n, UCLParser_parseFile, "Unknown file parsing error")

UclIdle ==
  /\ parser = "none"
  /\ libucl = NoLibrary
  /\ lastCall = NoCallYet
  /\ ops = 0

(***************************************************************************)
(* The state machine.                                                      *)
(***************************************************************************)

NoValidation == [done |-> FALSE, valid |-> TRUE, errors |-> <<>>, warnings |-> <<>>]

\* before the builder has run there is no model yet
NoConfig == Cfg(<<>>)

Init ==
  /\ \/ /\ parseResult \in ParseResults
        /\ config = NoConfig
        /\ phase = "parsed"
     \/ /\ parseResult = [config |-> <<>>]
        /\ config \in ModelConfigs
        /\ phase = "built"
  /\ clock = 0
  /\ gen = "none"
  /\ validation = NoValidation
  /\ output = NoOutput
  /\ prevOutput = NoOutput
  /\ ConverterIdle
  /\ ProcessIdle
  /\ UclIdle

\* convertCrossplaneToConfig(parseResult)
Build ==
  /\ phase = "parsed"
  /\ config' = convertCrossplaneToConfig(parseResult, clock)
  /\ phase' = "built"
  /\ UNCHANGED <<parseResult, clock, gen, validation, output, prevOutput>>
  /\ UNCHANGED nonGenVars

\* new XGenerator(config)
NewGenerator(g) ==
  /\ phase = "built"
  /\ gen' = g
  /\ validation' = NoValidation
  /\ output' = NoOutput
  /\ prevOutput' = NoOutput
  /\ UNCHANGED <<parseResult, config, phase, clock>>
  /\ UNCHANGED nonGenVars

\* generator.validate()
Validate ==
  /\ gen \in Generators
  /\ validation' = [done |-> TRUE,
                    valid |-> validate(gen, config).valid,
                    errors |-> validate(gen, config).errors,
                    warnings |-> validate(gen, config).warnings]
  /\ UNCHANGED <<parseResult, config, phase, clock, gen, output, prevOutput>>
  /\ UNCHANGED nonGenVars

\* the specificity sort is done on the caller's array itself
LocationsAfterHandlers_SortInPlace(g, locations) ==
  IF g \in {"cloudflare", "nextjs"} THEN SortLocations(locations) ELSE locations

\* server.locations after generateLocationHandlers(server.locations, indent)
\* has run: the worker and middleware generators sort the copy
\* [...locations], the other two only read the array in a forEach
LocationsAfterHandlers(g, locations) == locations

\* this.config after generate(): when the validation passes, the handlers of
\* every server have been generated
ConfigAfterGenerate(g, cfg) ==
  IF validate(g, cfg).valid
    THEN [cfg EXCEPT !.servers =
            [k \in 1..Len(cfg.servers) |->
               [cfg.servers[k] EXCEPT !.locations = LocationsAfterHandlers(g, @)]]]
    ELSE cfg

\* generator.generate()
Generate ==
  /\ gen \in Generators
  /\ prevOutput' = output
  /\ output' = generate(gen, config)
  /\ config' = ConfigAfterGenerate(gen, config)
  /\ UNCHANGED <<parseResult, phase, clock, gen, validation>>
  /\ UNCHANGED nonGenVars

\* the wall clock advances
Tick ==
  /\ clock < MaxClock
  /\ clock' = clock + 1
  /\ UNCHANGED <<parseResult, config, phase, gen, validation, output, prevOutput>>
  /\ UNCHANGED nonGenVars

Next ==
  \/ Build
  \/ \E g \in Generators : NewGenerator(g)
  \/ Validate
  \/ Generate
  \/ Tick

Spec == Init /\ [][Next]_vars

(***************************************************************************)
(* The converter as a state machine: one request (convertFile, preview or  *)
(* convertBatch) runs convertFile once per input path, each await being a  *)
(* step.                                                                   *)
(***************************************************************************)

\* a ConvertOptions object; "" stands for an omitted outputFile / outputFormat
OptionsOf(validateInput, dryRun, outputFile, outputFormat) ==
  LET base == ("validateInput" :> validateInput @@ "dryRun" :> dryRun)
      withFile == IF outputFile = "" THEN base ELSE SetKey(base, "outputFile", outputFile)
  IN IF outputFormat = "" THEN withFile ELSE SetKey(withFile, "outputFormat", outputFormat)

ConvertOptionsSet ==
  {OptionsOf(v, d, o, f) : v \in BOOLEAN, d \in BOOLEAN,
                           o \in {""} \cup OutputFiles, f \in {"", "json"}}

Requests ==
  {[api |-> a, configPaths |-> <<p>>, options |-> o] :
     a \in {"convertFile", "preview"}, p \in InputPaths, o \in ConvertOptionsSet}
  \cup
  {[api |-> "convertBatch", configPaths |-> ps, options |-> o] :
     ps \in SeqsUpTo(InputPaths, MaxBatch), o \in ConvertOptionsSet}

ConvInit ==
  /\ parseResult = [config |-> <<>>]
  /\ config = NoConfig
  /\ phase = "parsed"
  /\ clock = 0
  /\ gen = "none"
  /\ validation = NoValidation
  /\ output = NoOutput
  /\ prevOutput = NoOutput
  /\ \E kinds \in [InputPaths -> InputKinds], old \in {"absent", "# an earlier output\n"} :
       fsys = [p \in AllPaths |->
                 IF p \in InputPaths THEN kinds[p]
                 ELSE IF p = "out/all.ucl" THEN old ELSE "absent"]
  /\ request = NoRequest
  /\ call = NoCall
  /\ results = <<>>
  /\ returned = NoReturn
  /\ writes = <<>>
  /\ ProcessIdle
  /\ UclIdle

\* a caller invokes convertFile, preview or convertBatch
Invoke(req) ==
  /\ request = NoRequest
  /\ request' = req
  /\ UNCHANGED <<fsys, call, results, returned, writes>>
  /\ UNCHANGED nonConvVars

\* the options convertFile is called with for the next input path
CallOptions(req, configPath) ==
  CASE req.api = "preview" -> SetKey(req.options, "dryRun", TRUE)
    [] req.api = "convertBatch" ->
         IF ~Has(req.options, "outputFile") /\ Len(req.configPaths) > 1
           THEN SetKey(req.options, "outputFile", DerivedOutputFile(configPath))
           ELSE req.options
    [] OTHER -> req.options

\* convertFile(configPath, options) is entered for the next input path
EnterConvertFile ==
  /\ request # NoRequest
  /\ returned = NoReturn
  /\ call = NoCall
  /\ Len(results) < Len(request.configPaths)
  /\ LET configPath == request.configPaths[Len(results) + 1] IN
     call' = [pc |-> "access", configPath |-> configPath,
              options |-> CallOptions(request, configPath),
              result |-> NewResult, parsed |-> <<>>]
  /\ UNCHANGED <<fsys, request, results, returned, writes>>
  /\ UNCHANGED nonConvVars

\* a catch block that swallows the error
Caught_Silent(c, message) == [c EXCEPT !.pc = "finally"]

\* catch (error) { result.errors.push(error.message) } finally { ... }
Caught(c, message) ==
  [c EXCEPT !.pc = "finally", !.result = SetKey(@, "errors", Append(@["errors"], message))]

\* await access(configPath)
ConvAccess ==
  /\ call.pc = "access"
  /\ call' = IF fsys[call.configPath] = "absent"
               THEN Caught(call, "ENOENT: no such file or directory, access '"
                                   \o call.configPath \o "'")
               ELSE [call EXCEPT !.pc = "readFile"]
  /\ UNCHANGED <<fsys, request, results, returned, writes>>
  /\ UNCHANGED nonConvVars

\* await readFile(configPath, 'utf8'); result.inputFiles.push(configPath)
ConvReadFile ==
  /\ call.pc = "readFile"
  /\ call' = IF fsys[call.configPath] = "unreadable"
               THEN Caught(call, "EACCES: permission denied, open '"
                                   \o call.configPath \o "'")
               ELSE [call EXCEPT !.pc = "validateInput",
                                 !.result = SetKey(@, "inputFiles", <<call.configPath>>)]
  /\ UNCHANGED <<fsys, request, results, returned, writes>>
  /\ UNCHANGED nonConvVars

\* if (options.validateInput) { ... if (!validation.valid) return result }
ConvValidateInput ==
  /\ call.pc = "validateInput"
  /\ LET validation_ == validateConfig(fsys, call.configPath) IN
     call' = IF Option(call.options, "validateInput", FALSE) /\ ~validation_.valid
               THEN [call EXCEPT
                       !.pc = "finally",
                       !.result = SetKey(@, "errors",
                          [i \in 1..Len(validation_.errors) |->
                             validation_.errors[i].file \o ":"
                               \o ToString(validation_.errors[i].line) \o ": "
                               \o validation_.errors[i].error])]
               ELSE [call EXCEPT !.pc = "parseConfig"]
  /\ UNCHANGED <<fsys, request, results, returned, writes>>
  /\ UNCHANGED nonConvVars

\* await this.parser.parseConfig(configPath, options.parser)
ConvParse ==
  /\ call.pc = "parseConfig"
  /\ LET parsed == parseConfig(fsys, call.configPath, FALSE) IN
     call' = IF ~parsed.ok THEN Caught(call, parsed.message)
             ELSE [call EXCEPT
                     !.pc = "transform",
                     !.parsed = parsed,
                     !.result = SetKey(@, "inputFiles",
                                  [i \in 1..Len(parsed.config) |-> parsed.config[i].file])]
  /\ UNCHANGED <<fsys, request, results, returned, writes>>
  /\ UNCHANGED nonConvVars

\* await this.transformer.transform(parseResult, options.transformer)
ConvTransform ==
  /\ call.pc = "transform"
  /\ LET uclOutput == transform(call.parsed) IN
     call' = IF ~uclOutput.ok THEN Caught(call, uclOutput.message)
             ELSE [call EXCEPT !.pc = "writeOutput",
                               !.result = SetKey(@, "ucl", uclOutput.text)]
  /\ UNCHANGED <<fsys, request, results, returned, writes>>
  /\ UNCHANGED nonConvVars

\* a guard that does not look at dryRun
WriteRequested_IgnoresDryRun(options) == Truthy(options, "outputFile")

\* the test that guards the write: options.outputFile && !options.dryRun
WriteRequested(options) ==
  Truthy(options, "outputFile") /\ ~Option(options, "dryRun", FALSE)

\* if (options.outputFile && !options.dryRun) { await this.writeOutput(...);
\* result.outputFile = options.outputFile }  result.success = true
ConvWriteOutput ==
  /\ call.pc = "writeOutput"
  /\ IF WriteRequested(call.options)
       THEN IF Writable(call.options["outputFile"])
              THEN /\ fsys' = [fsys EXCEPT ![call.options["outputFile"]] =
                                 OutputContent(call.result["ucl"],
                                               Option(call.options, "outputFormat", "ucl"))]
                   /\ writes' = Append(writes, call.options["outputFile"])
                   /\ call' = [call EXCEPT
                                 !.pc = "finally",
                                 !.result = SetKey(SetKey(@, "outputFile",
                                                          call.options["outputFile"]),
                                                   "success", TRUE)]
              ELSE /\ call' = Caught(call, "EACCES: permission denied, open '"
                                             \o call.options["outputFile"] \o "'")
                   /\ UNCHANGED <<fsys, writes>>
       ELSE /\ call' = [call EXCEPT !.pc = "finally", !.result = SetKey(@, "success", TRUE)]
            /\ UNCHANGED <<fsys, writes>>
  /\ UNCHANGED <<request, results, returned>>
  /\ UNCHANGED nonConvVars

\* convertFile resolves with result; convertBatch pushes it onto results
LeaveConvertFile ==
  /\ call.pc = "finally"
  /\ results' = Append(results, call.result)
  /\ call' = NoCall
  /\ UNCHANGED <<fsys, request, returned, writes>>
  /\ UNCHANGED nonConvVars

\* result.ucl || ''
UclOrEmpty(result) == IF Truthy(result, "ucl") THEN result["ucl"] ELSE ""

\* a batch that gives up at the first failed input
Return_StopOnFailure ==
  /\ request # NoRequest
  /\ returned = NoReturn
  /\ call = NoCall
  /\ \/ Len(results) = Len(request.configPaths)
     \/ Len(results) > 0 /\ ~results[Len(results)]["success"]
  /\ returned' = [kind |-> "resolved", value |-> results]
  /\ UNCHANGED <<fsys, request, call, results, writes>>
  /\ UNCHANGED nonConvVars

\* the request resolves: convertFile with its result, preview with the text
\* and the warnings, convertBatch with the results array
Return ==
  /\ request # NoRequest
  /\ returned = NoReturn
  /\ call = NoCall
  /\ Len(results) = Len(request.configPaths)
  /\ returned' =
       CASE request.api = "convertFile" -> [kind |-> "resolved", value |-> results[1]]
         [] request.api = "preview" ->
              [kind |-> "resolved",
               value |-> [ucl |-> UclOrEmpty(results[1]), warnings |-> results[1]["warnings"]]]
         [] request.api = "convertBatch" -> [kind |-> "resolved", value |-> results]
  /\ UNCHANGED <<fsys, request, call, results, writes>>
  /\ UNCHANGED nonConvVars

ConvNext ==
  \/ \E req \in Requests : Invoke(req)
  \/ EnterConvertFile
  \/ ConvAccess
  \/ ConvReadFile
  \/ ConvValidateInput
  \/ ConvParse
  \/ ConvTransform
  \/ ConvWriteOutput
  \/ LeaveConvertFile
  \/ Return

ConvSpec == ConvInit /\ [][ConvNext]_vars

(***************************************************************************)
(* One call of runCrossplane.  The events of the child process and the     *)
(* timer arrive in any order; the two 'close' listeners run one after the  *)
(* other in the same turn of the event loop.                               *)
(***************************************************************************)

ProcInit == GeneratorsIdle /\ ConverterIdle /\ ProcessIdle /\ UclIdle

\* runCrossplane(args): the executor spawns the child, registers the
\* listeners and arms the timer; a child that could not be spawned only
\* reports an error
RunCrossplane ==
  /\ promise.state = "none"
  /\ child' \in {"running", "failed"}
  /\ promise' = [state |-> "pending", value |-> ""]
  /\ timeout' = "armed"
  /\ UNCHANGED <<stdout, stderr, killed, terminal>>
  /\ UNCHANGED nonProcVars

\* process.stdout.on('data', ...)
StdoutData(chunk) ==
  /\ child = "running"
  /\ Len(stdout) + Len(chunk) <= MaxStdout
  /\ stdout' = stdout \o chunk
  /\ UNCHANGED <<child, stderr, promise, timeout, killed, terminal>>
  /\ UNCHANGED nonProcVars

\* process.stderr.on('data', ...)
StderrData(chunk) ==
  /\ child = "running"
  /\ Len(stderr) + Len(chunk) <= MaxStderr
  /\ stderr' = stderr \o chunk
  /\ UNCHANGED <<child, stdout, promise, timeout, killed, terminal>>
  /\ UNCHANGED nonProcVars

\* 'close': both listeners
CloseEvent(code) ==
  /\ child \in {"running", "failed"}
  /\ child = "failed" => code # "0"
  /\ child' = "closed"
  /\ promise' = CloseListener(promise, code, stdout, stderr)
  /\ timeout' = TimeoutAfterClose(timeout)
  /\ terminal' = Append(terminal, "close:" \o code)
  /\ UNCHANGED <<stdout, stderr, killed>>
  /\ UNCHANGED nonProcVars

\* process.on('error', ...): the child could not be spawned or killed
ErrorEvent(message) ==
  /\ child \in {"running", "failed"}
  /\ Len(SelectSeq(terminal, LAMBDA e : e = "error")) < MaxErrors
  /\ promise' = Reject(promise, "Failed to run crossplane: " \o message)
  /\ terminal' = Append(terminal, "error")
  /\ UNCHANGED <<child, stdout, stderr, timeout, killed>>
  /\ UNCHANGED nonProcVars

\* the callback of setTimeout(..., 30000)
TimerFires ==
  /\ timeout = "armed"
  /\ timeout' = "fired"
  /\ killed' = TRUE
  /\ promise' = Reject(promise, "crossplane command timed out")
  /\ terminal' = Append(terminal, "timeout")
  /\ UNCHANGED <<child, stdout, stderr>>
  /\ UNCHANGED nonProcVars

ProcNext ==
  \/ RunCrossplane
  \/ \E chunk \in StdoutChunks : StdoutData(chunk)
  \/ \E chunk \in StderrChunks : StderrData(chunk)
  \/ \E code \in ExitCodes : CloseEvent(code)
  \/ \E message \in ErrorMessages : ErrorEvent(message)
  \/ TimerFires

\* a timer that is armed and not cleared fires
ProcSpec == ProcInit /\ [][ProcNext]_vars /\ WF_vars(TimerFires)

(***************************************************************************)
(* A UCLParser object used directly, and calls of parseUCL/parseUCLFile.   *)
(***************************************************************************)

UclInit == GeneratorsIdle /\ ConverterIdle /\ ProcessIdle /\ UclIdle

\* const parser = new UCLParser()
NewParser(newOk) ==
  /\ ops < MaxOps
  /\ parser = "none"
  /\ LET made == UCLParser_constructor(libucl, newOk) IN
       /\ libucl' = made[1]
       /\ parser' = IF made[3] THEN made[2] ELSE "none"
       /\ lastCall' = [op |-> "new",
                       ret |-> IF made[3] THEN Success
                               ELSE Thrown("Failed to create UCL parser")]
  /\ ops' = ops + 1
  /\ UNCHANGED nonUclVars

\* parser.parseString(content)
ParseString(n) ==
  /\ ops < MaxOps
  /\ parser \in {"handle", "null"}
  /\ LET r == UCLParser_parseString(parser, libucl, n) IN
       /\ libucl' = r[1]
       /\ lastCall' = [op |-> "parseString", ret |-> r[2]]
  /\ ops' = ops + 1
  /\ UNCHANGED parser
  /\ UNCHANGED nonUclVars

\* parser.parseFile(filename)
ParseFile(n) ==
  /\ ops < MaxOps
  /\ parser \in {"handle", "null"}
  /\ LET r == UCLParser_parseFile(parser, libucl, n) IN
       /\ libucl' = r[1]
       /\ lastCall' = [op |-> "parseFile", ret |-> r[2]]
  /\ ops' = ops + 1
  /\ UNCHANGED parser
  /\ UNCHANGED nonUclVars

\* parser.destroy()
Destroy ==
  /\ ops < MaxOps
  /\ parser \in {"handle", "null"}
  /\ LET d == UCLParser_destroy(parser, libucl) IN
       /\ libucl' = d[1]
       /\ parser' = d[2]
  /\ lastCall' = [op |-> "destroy", ret |-> Success]
  /\ ops' = ops + 1
  /\ UNCHANGED nonUclVars

\* parseUCL(content)
CallParseUCL(newOk, n) ==
  /\ ops < MaxOps
  /\ LET r == parseUCL(libucl, newOk, n) IN
       /\ libucl' = r[1]
       /\ lastCall' = [op |-> "parseUCL", ret |-> r[2]]
  /\ ops' = ops + 1
  /\ UNCHANGED parser
  /\ UNCHANGED nonUclVars

\* parseUCLFile(filePath)
CallParseUCLFile(newOk, n) ==
  /\ ops < MaxOps
  /\ LET r == parseUCLFile(libucl, newOk, n) IN
       /\ libucl' = r[1]
       /\ lastCall' = [op |-> "parseUCLFile", ret |-> r[2]]
  /\ ops' = ops + 1
  /\ UNCHANGED parser
  /\ UNCHANGED nonUclVars

UclNext ==
  \/ \E newOk \in BOOLEAN : NewParser(newOk)
  \/ \E n \in NativeAnswers : ParseString(n)
  \/ \E n \in NativeAnswers : ParseFile(n)
  \/ Destroy
  \/ \E newOk \in BOOLEAN, n \in NativeAnswers : CallParseUCL(newOk, n)
  \/ \E newOk \in BOOLEAN, n \in NativeAnswers : CallParseUCLFile(newOk, n)

UclSpec == UclInit /\ [][UclNext]_vars

(***************************************************************************)
(* Reading the generated text back: the server blocks and host conditions  *)
(* the properties below look at are cut out of the string generate()       *)
(* returned.                                                               *)
(***************************************************************************)

\* number of places where p occurs in text
CountOccurrences(text, p) ==
  Cardinality({i \in 1..(Len(text) - Len(p) + 1) : SubSeq(text, i, i + Len(p) - 1) = p})

ServerMarker(k) == "  // Server block " \o ToString(k) \o "\n"

\* the emitted block of the k-th server: from its comment line to its closing brace
ServerSegment(text, k) ==
  LET start == IndexOf(text, ServerMarker(k))
      rest  == SubSeq(text, start, Len(text))
      stop  == IndexOf(rest, "\n  }\n")
  IN IF start = 0 \/ stop = 0 THEN "" ELSE SubSeq(rest, 1, stop + 3)

\* the condition of the host "if" that opens the k-th server block
EmittedHostCondition(text, k) ==
  LET seg  == ServerSegment(text, k)
      from == Len(ServerMarker(k)) + Len("  if (") + 1
      rest == SubSeq(seg, from, Len(seg))
      stop == IndexOf(rest, ") {\n")
  IN IF seg = "" \/ stop = 0 THEN "" ELSE SubSeq(rest, 1, stop - 1)

\* the emitted block of one location, as text
LocationText(g, location) == Join(LocationBlock(g, location, "    "), "\n")

\* generate() has returned source text for the current model
Generated == gen \in Generators /\ output.kind = "text"

\* (server, location) positions that hold fastcgi_pass or uwsgi_pass
IncompatibleLocations(cfg) ==
  UNION {{<<i, j>> : j \in {j \in 1..Len(cfg.servers[i].locations) :
                              \/ Truthy(cfg.servers[i].locations[j].directives, "fastcgi_pass")
                              \/ Truthy(cfg.servers[i].locations[j].directives, "uwsgi_pass")}} :
         i \in 1..Len(cfg.servers)}

(***************************************************************************)
(* Properties.                                                             *)
(***************************************************************************)

\* C1: whenever validate() of the generator reports valid = FALSE, generate()
\* has thrown and returned no text, the failure is the validation failure (not
\* one of the assembly, which has not started), and the message holds every
\* entry of validate().errors.
C1_InvalidThrowsAll ==
  (gen \in Generators /\ output.kind # "none" /\ ~validate(gen, config).valid) =>
     /\ output.kind = "threw"
     /\ output.text = ""
     /\ StartsWith(output.message, "Validation failed: ")
     /\ \A i \in 1..Len(validate(gen, config).errors) :
          Includes(output.message, validate(gen, config).errors[i])

\* generate() of the Lambda@Edge generator threw on a model with two or more
\* validation errors whose assembly would itself have thrown
C1_Witness ==
  /\ gen = "lambda-edge"
  /\ output.kind = "threw"
  /\ Len(validate(gen, config).errors) >= 2
  /\ LE_AssembleThrows(config)

\* C2: validate() of the Lambda@Edge and QuickJS generators is exhaustive: with
\* k locations (in any servers) holding fastcgi_pass or uwsgi_pass the errors
\* array has at least k entries, one naming each of those locations.
C2_ValidationExhaustive ==
  (validation.done /\ gen \in {"lambda-edge", "quickjs"}) =>
     /\ Len(validation.errors) >= Cardinality(IncompatibleLocations(config))
     /\ \A loc \in IncompatibleLocations(config) :
          \E e \in 1..Len(validation.errors) :
            StartsWith(validation.errors[e],
                       "Server " \o ToString(loc[1] - 1) \o ", Location "
                         \o ToString(loc[2] - 1) \o ": FastCGI/uWSGI not supported")

\* validate() has run on a model with incompatible locations in two servers
C2_Witness ==
  /\ validation.done
  /\ gen = "lambda-edge"
  /\ \E a, b \in IncompatibleLocations(config) : a[1] # b[1]
  /\ Len(validation.errors) >= 2

C4_LocationPrecedence ==
  Generated =>
    \A k \in 1..Len(config.servers) :
      LET server  == config.servers[k]
          emitted == EmittedLocations(gen, server.locations)
          seg     == ServerSegment(output.text, k)
          plain   == {server.locations[i].path :
                        i \in {i \in 1..Len(server.locations) : Modifier(server.locations[i]) = ""}}
      IN /\ \A i, j \in 1..Len(emitted) : i < j => CompareLocations(emitted[i], emitted[j]) <= 0
         /\ ({"/", "/api"} \subseteq plain /\ Len(server.locations) = 2) =>
              /\ IndexOf(seg, "    // Location: /api\n") < IndexOf(seg, "    // Location: /\n")
              /\ emitted[FirstEntered(gen, server, "/api/users")].path = "/api"

\* C5: in every generator a location {path: "/x", modifier: "="} gets a
\* condition that holds for the request path /x and not for /x/y, and a
\* request for /x enters an exact-match block before any prefix block.
C5_ExactMatchPriority ==
  Generated =>
    \A k \in 1..Len(config.servers) :
      LET server  == config.servers[k]
          emitted == EmittedLocations(gen, server.locations)
      IN \A i \in 1..Len(server.locations) :
           LET location == server.locations[i] IN
           (Modifier(location) = "=" /\ location.path = "/x") =>
             /\ Includes(output.text, LocationBlock(gen, location, "    ")[2])
             /\ LocationMatches(gen, location, "/x")
             /\ ~LocationMatches(gen, location, "/x/y")
             /\ Modifier(emitted[FirstEntered(gen, server, "/x")]) = "="

\* C6: for a server whose server_name list is empty, absent or holds the
\* literal "*", the host condition in the generated text holds for every
\* hostname: the empty one and differently cased ones included.
C6_HostTotality ==
  Generated =>
    \A k \in 1..Len(config.servers) :
      LET hostPatterns == extractHostPatterns(config.servers[k]) IN
      (Len(hostPatterns) = 0 \/ ArrayIncludes(hostPatterns, "*")) =>
        \A h \in Hostnames :
          EvalCondition(EmittedHostCondition(output.text, k), "hostname", h)

\* the worker generator returned text for a server that lists "*" beside an exact name
C6_Witness ==
  /\ gen = "cloudflare"
  /\ output.kind = "text"
  /\ \E k \in 1..Len(config.servers) :
       /\ Has(config.servers[k], "server_name")
       /\ Len(config.servers[k].server_name) = 2
       /\ ArrayIncludes(config.servers[k].server_name, "*")

\* the directives of the location block of a parsed file of the form
\* http { server { listen; server_name; location { ... } } }
ParsedLocationBlock == parseResult.config[1].parsed[1].block[1].block[3].block

\* positions of the add_header directives in a location block
AddHeaderPositions(block) == {i \in 1..Len(block) : block[i].directive = "add_header"}

\* C7: when a location block holds several add_header directives the model's
\* add_header map has exactly one entry per distinct header name, each with
\* the value of the last directive of that name.
C7_LastHeaderWins ==
  (phase = "built" /\ Len(parseResult.config) = 1
     /\ parseResult.config[1].parsed \in HeaderTrees
     /\ Cardinality(AddHeaderPositions(ParsedLocationBlock)) >= 2) =>
    LET block == ParsedLocationBlock
        at    == AddHeaderPositions(block)
        names == {block[i].args[1] : i \in at}
        directives == config.servers[1].locations[1].directives
    IN /\ Has(directives, "add_header")
       /\ DOMAIN directives["add_header"] = names
       /\ \A n \in names :
            LET last == CHOOSE i \in at :
                          /\ block[i].args[1] = n
                          /\ \A j \in at : block[j].args[1] = n => j <= i
            IN directives["add_header"][n] = block[last].args[2]

\* the builder has converted a location with X-A set twice, X-B in between
C7_Witness ==
  /\ phase = "built"
  /\ Len(parseResult.config) = 1
  /\ parseResult.config[1].parsed \in HeaderTrees
  /\ ParsedLocationBlock = <<Dir("add_header", <<"X-A", "one">>),
                             Dir("add_header", <<"X-B", "three">>),
                             Dir("add_header", <<"X-A", "two">>)>>
  /\ config.servers[1].locations[1].directives["add_header"] = ("X-A" :> "two" @@ "X-B" :> "three")

\* the parsed file has no server and no http node at its top level
NoServerOrHttpNodes(pr) ==
  Len(pr.config) = 0
  \/ \A i \in 1..Len(pr.config[1].parsed) :
       pr.config[1].parsed[i].directive \notin {"server", "http"}

\* C8: for a directive tree without server and http nodes the builder returns
\* servers = [], upstreams = [], global = {}; validate() of every generator is
\* then valid with no errors and a warning about the missing servers, and
\* generate() returns text instead of throwing.
C8_EmptyInput ==
  (phase = "built" /\ Has(config, "metadata") /\ NoServerOrHttpNodes(parseResult)) =>
     /\ config.servers = <<>>
     /\ config.upstreams = <<>>
     /\ config.global = EmptyObject
     /\ validation.done =>
          /\ validation.valid
          /\ validation.errors = <<>>
          /\ \E w \in 1..Len(validation.warnings) :
               Includes(ToLowerCase(validation.warnings[w]), "no server")
     /\ (gen \in Generators /\ output.kind # "none") => output.kind = "text"

\* the builder converted a tree holding only user and events nodes, and the
\* worker generator validated the model and generated from it
C8_Witness ==
  /\ phase = "built"
  /\ Has(config, "metadata")
  /\ Len(parseResult.config) = 1
  /\ Len(parseResult.config[1].parsed) = 2
  /\ NoServerOrHttpNodes(parseResult)
  /\ gen = "cloudflare"
  /\ validation.done
  /\ output.kind = "text"

\* C9: for a location whose model holds return = {code: 301, url: U} the text
\* every generator returns contains that location's block, and the block
\* contains the literal 301 and the literal U.
C9_RedirectLiterals ==
  Generated =>
    \A k \in 1..Len(config.servers) :
      \A i \in 1..Len(config.servers[k].locations) :
        LET location == config.servers[k].locations[i] IN
        (Has(location.directives, "return")
           /\ location.directives["return"].code = 301
           /\ Has(location.directives["return"], "url")) =>
          /\ Includes(ServerSegment(output.text, k), LocationText(gen, location))
          /\ Includes(LocationText(gen, location), "301")
          /\ Includes(LocationText(gen, location), location.directives["return"].url)

\* the worker generator returned text for a location that redirects with 301
\* and also names a proxy_pass target
C9_Witness ==
  /\ gen = "cloudflare"
  /\ output.kind = "text"
  /\ Len(config.servers) = 1
  /\ \E i \in 1..Len(config.servers[1].locations) :
       /\ Has(config.servers[1].locations[i].directives, "return")
       /\ config.servers[1].locations[i].directives["return"].code = 301
       /\ Has(config.servers[1].locations[i].directives, "proxy_pass")

\* the server_name entries of a server that hold no '*'
ExactNames(server) ==
  {extractHostPatterns(server)[i] :
     i \in {i \in 1..Len(extractHostPatterns(server)) : ~Includes(extractHostPatterns(server)[i], "*")}}

\* the k-th host condition of the text tests the hostname for equality with name
HasEqualityTest(text, k, name) ==
  LET terms == Split(EmittedHostCondition(text, k), " || ") IN
  \E t \in 1..Len(terms) : terms[t] = "hostname === \"" \o name \o "\""

\* the block of the k-th server holds the block of the location, with a proxy
\* action on the location's proxy_pass target in it
HasProxyAction(text, k, location) ==
  /\ Includes(ServerSegment(text, k), LocationText("cloudflare", location))
  /\ Includes(LocationText("cloudflare", location),
              "proxyRequest(request, \"" \o location.directives["proxy_pass"] \o "\", url)")

\* N servers yield N server blocks, the k-th behind the (k-1)-th
ServerBlocksInOrder(text, n) ==
  /\ CountOccurrences(text, "  // Server block ") = n
  /\ \A k \in 1..n : IndexOf(text, ServerMarker(k)) > 0
  /\ \A k \in 1..(n - 1) : IndexOf(text, ServerMarker(k)) < IndexOf(text, ServerMarker(k + 1))

\* servers of only exact names, no name in common, never both accept a hostname
DisjointExactServersExclusive(text, cfg) ==
  \A a, b \in 1..Len(cfg.servers) :
    (/\ a < b
     /\ ExactNames(cfg.servers[a]) # {}
     /\ ExactNames(cfg.servers[b]) # {}
     /\ Cardinality(ExactNames(cfg.servers[a])) = Len(extractHostPatterns(cfg.servers[a]))
     /\ Cardinality(ExactNames(cfg.servers[b])) = Len(extractHostPatterns(cfg.servers[b]))
     /\ ExactNames(cfg.servers[a]) \cap ExactNames(cfg.servers[b]) = {}) =>
      \A h \in Hostnames \cup ExactNames(cfg.servers[a]) \cup ExactNames(cfg.servers[b]) :
        ~(/\ EvalCondition(EmittedHostCondition(text, a), "hostname", h)
          /\ EvalCondition(EmittedHostCondition(text, b), "hostname", h))

\* C10 as stated: in the worker generator N servers yield N host-condition
\* blocks in order, every server_name entry without '*' is an equality test
\* of its server's condition, and every location with proxy_pass has a proxy
\* action on its target inside its server's block.
C10_AsStated ==
  (Generated /\ gen = "cloudflare") =>
     /\ ServerBlocksInOrder(output.text, Len(config.servers))
     /\ DisjointExactServersExclusive(output.text, config)
     /\ \A k \in 1..Len(config.servers) :
          /\ \A name \in ExactNames(config.servers[k]) : HasEqualityTest(output.text, k, name)
          /\ \A i \in 1..Len(config.servers[k].locations) :
               Truthy(config.servers[k].locations[i].directives, "proxy_pass") =>
                 HasProxyAction(output.text, k, config.servers[k].locations[i])

\* the location answers with a 3xx redirect, which the generators emit
\* instead of every other action
RedirectsFirst(location) ==
  /\ Has(location.directives, "return")
  /\ location.directives["return"].code >= 300
  /\ location.directives["return"].code < 400

\* C10, amended: as above, but the equality tests are there only for servers
\* whose server_name list does not hold the literal "*" (for those the
\* condition is the constant true), and the proxy action only for locations
\* that do not also answer with a 3xx return.
C10_ServerBlocks ==
  (Generated /\ gen = "cloudflare") =>
     /\ ServerBlocksInOrder(output.text, Len(config.servers))
     /\ DisjointExactServersExclusive(output.text, config)
     /\ \A k \in 1..Len(config.servers) :
          /\ ~ArrayIncludes(extractHostPatterns(config.servers[k]), "*") =>
               \A name \in ExactNames(config.servers[k]) : HasEqualityTest(output.text, k, name)
          /\ \A i \in 1..Len(config.servers[k].locations) :
               (/\ Truthy(config.servers[k].locations[i].directives, "proxy_pass")
                /\ ~RedirectsFirst(config.servers[k].locations[i])) =>
                 HasProxyAction(output.text, k, config.servers[k].locations[i])

\* the worker generator returned text for two servers with different exact
\* names, each with a proxied location
C10_Witness ==
  /\ gen = "cloudflare"
  /\ output.kind = "text"
  /\ Len(config.servers) = 2
  /\ ExactNames(config.servers[1]) = {"example.com"}
  /\ ExactNames(config.servers[2]) = {"api.example.com"}
  /\ Len(extractHostPatterns(config.servers[2])) = 1
  /\ Len(config.servers[1].locations) >= 1
  /\ Truthy(config.servers[1].locations[1].directives, "proxy_pass")

\* the location is proxied and its proxy_pass value is no URL once a trailing
\* $variable is stripped
MalformedProxy(location) ==
  /\ ~Has(location.directives, "return")
  /\ Truthy(location.directives, "proxy_pass")
  /\ ~ParseURL(StripVariables(location.directives["proxy_pass"])).ok

\* C11: in the Lambda@Edge and QuickJS generators a location whose proxy_pass
\* is not a well-formed URL does not make generate() throw: the text holds a
\* 502 Bad Gateway path in the block of that location only, and the block of
\* every other location is emitted as usual.
C11_LocalizedDegradation ==
  (gen \in {"lambda-edge", "quickjs"} /\ output.kind # "none" /\ validate(gen, config).valid) =>
     /\ output.kind = "text"
     /\ \A k \in 1..Len(config.servers) :
          \A i \in 1..Len(config.servers[k].locations) :
            LET location == config.servers[k].locations[i] IN
            /\ Includes(ServerSegment(output.text, k), LocationText(gen, location))
            /\ MalformedProxy(location) <=>
                 (/\ Includes(LocationText(gen, location), "502")
                  /\ Includes(LocationText(gen, location), "Bad Gateway"))

\* C12: in the Lambda@Edge and QuickJS generators a model with a location that
\* holds fastcgi_pass or uwsgi_pass is refused: validate() reports valid =
\* FALSE with an error that names the server and the location index of every
\* such location, and generate() throws instead of returning text.  The
\* platform check of the fetch-event worker generator never produces an error.
C12_HardLimitsRefused ==
  /\ (gen \in {"lambda-edge", "quickjs"} /\ IncompatibleLocations(config) # {}) =>
       /\ validation.done =>
            /\ ~validation.valid
            /\ \A loc \in IncompatibleLocations(config) :
                 \E e \in 1..Len(validation.errors) :
                   /\ StartsWith(validation.errors[e],
                                 "Server " \o ToString(loc[1] - 1) \o ", Location "
                                   \o ToString(loc[2] - 1) \o ":")
                   /\ Includes(validation.errors[e], "not supported")
       /\ output.kind # "none" => (output.kind = "threw" /\ output.text = "")
  /\ gen = "cloudflare" =>
       /\ CF_validatePlatformSpecific(config).errors = <<>>
       /\ validation.done => validation.errors = <<>>

\* the QuickJS generator has refused a model whose only incompatible
\* directive is a uwsgi_pass: validate() reported it and generate() threw
C12_Witness ==
  /\ gen = "quickjs"
  /\ validation.done
  /\ ~validation.valid
  /\ output.kind = "threw"
  /\ Len(config.servers) = 1
  /\ IncompatibleLocations(config) = {<<1, 1>>}
  /\ Has(config.servers[1].locations[1].directives, "uwsgi_pass")
  /\ ~Has(config.servers[1].locations[1].directives, "fastcgi_pass")

\* C13: warnings are not fatal.  For every generator validate().valid is TRUE
\* exactly when validate().errors is empty, and a model that triggers only
\* warnings (SSL certificate, root/alias, expires, proxy_pass notes) has valid
\* = TRUE, a non-empty warnings array, and a generate() that returns text.
C13_WarningsNonFatal ==
  /\ (gen \in Generators /\ validation.done) =>
       (validation.valid <=> validation.errors = <<>>)
  /\ (/\ gen \in Generators
      /\ validate(gen, config).errors = <<>>
      /\ validate(gen, config).warnings # <<>>) =>
       /\ validate(gen, config).valid
       /\ output.kind # "none" => (output.kind = "text" /\ output.text # "")

IsServerNode(node) == node.directive = "server"
IsListenNode(node) == node.directive = "listen"
IsLocationNode(node) == node.directive = "location"

\* the server directives of a directive tree that stand at top level or
\* directly inside an http block, in document order
ServerDirectivesOf(parsed) ==
  ConcatAll([i \in 1..Len(parsed) |->
               IF IsServerNode(parsed[i]) THEN <<parsed[i]>>
               ELSE IF parsed[i].directive = "http" /\ Has(parsed[i], "block")
                 THEN SelectSeq(parsed[i].block, IsServerNode)
               ELSE <<>>])

\* the directives of one kind inside a server directive, in declaration order
ChildrenOf(node, Kind(_)) ==
  IF Has(node, "block") THEN SelectSeq(node.block, Kind) ELSE <<>>

\* the directive tree the model was built from
BuiltFromTree == phase = "built" /\ Len(parseResult.config) > 0

\* C14: the builder adds one ServerBlock for every server directive at top
\* level or directly inside an http block of the directive tree, in document
\* order; within each server there is one location per location directive and
\* one listen entry per listen directive, in declaration order.
C14_FlatteningAndOrder ==
  BuiltFromTree =>
    LET nodes == ServerDirectivesOf(parseResult.config[1].parsed) IN
    /\ Len(config.servers) = Len(nodes)
    /\ \A k \in 1..Len(nodes) :
         LET locs == ChildrenOf(nodes[k], IsLocationNode)
             lsns == ChildrenOf(nodes[k], IsListenNode)
             server == config.servers[k]
         IN /\ Len(server.locations) = Len(locs)
            /\ \A j \in 1..Len(locs) :
                 server.locations[j] = convertLocationBlock(locs[j])
            /\ Len(server.listen) = Len(lsns)
            /\ \A j \in 1..Len(lsns) :
                 Len(lsns[j].args) >= 1 /\ parseInt(lsns[j].args[1]) # NaN =>
                   server.listen[j].port = parseInt(lsns[j].args[1])
            /\ \A d \in 1..(IF Has(nodes[k], "block") THEN Len(nodes[k].block) ELSE 0) :
                 nodes[k].block[d].directive = "server_name" =>
                   Has(server, "server_name")

\* a tree with a top-level server between two http blocks was built: five
\* servers, the third with two locations and two listen entries in
\* declaration order
C14_Witness ==
  /\ BuiltFromTree
  /\ Len(parseResult.config[1].parsed) = 3
  /\ parseResult.config[1].parsed[1].directive = "http"
  /\ parseResult.config[1].parsed[2].directive = "server"
  /\ parseResult.config[1].parsed[3].directive = "http"
  /\ Len(config.servers) = 5
  /\ Has(config.servers[1], "server_name")
  /\ config.servers[1].server_name = <<"first.example.com">>
  /\ Has(config.servers[3], "server_name")
  /\ config.servers[3].server_name = <<"top.example.com">>
  /\ Len(config.servers[3].locations) = 2
  /\ Len(config.servers[3].listen) = 2
  /\ [j \in 1..2 |-> config.servers[3].locations[j].path] = <<"/b", "/a">>
  /\ [j \in 1..2 |-> config.servers[3].listen[j].port] = <<8080, 80>>

\* C15: no silent default port.  The builder completes on every listen
\* directive, and the listen entry made from a listen directive has port 80
\* only when the directive has a first argument and that argument parses to
\* 80: a missing or non-integer first argument never gives port 80.
C15_NoSilentDefaultPort ==
  BuiltFromTree =>
    LET nodes == ServerDirectivesOf(parseResult.config[1].parsed) IN
    /\ Len(config.servers) = Len(nodes)
    /\ \A k \in 1..Len(nodes) :
         LET lsns == ChildrenOf(nodes[k], IsListenNode) IN
         /\ Len(config.servers[k].listen) = Len(lsns)
         /\ \A j \in 1..Len(lsns) :
              config.servers[k].listen[j].port = 80 =>
                (Len(lsns[j].args) >= 1 /\ parseInt(lsns[j].args[1]) = 80)

(***************************************************************************)
(* Properties of the converter (checked under ConvSpec).                   *)
(***************************************************************************)

\* the input path and the options of the i-th convertFile call of the request
PathOf(i) == request.configPaths[i]
OptionsFor(i) == CallOptions(request, PathOf(i))

\* the step of convertFile that cannot complete for this input, "" if none
FailingStep(fs, configPath, options) ==
  CASE fs[configPath] = "absent" -> "access"
    [] fs[configPath] = "unreadable" -> "readFile"
    [] fs[configPath] = "unknown-directive" /\ Option(options, "validateInput", FALSE) ->
         "validateInput"
    [] fs[configPath] = "syntax-error" ->
         IF Option(options, "validateInput", FALSE) THEN "validateInput" ELSE "parseConfig"
    [] fs[configPath] = "untransformable" -> "transform"
    [] Truthy(options, "outputFile") /\ ~Option(options, "dryRun", FALSE)
         /\ ~Writable(options["outputFile"]) -> "writeOutput"
    [] OTHER -> ""

Wrote(outputFile) == \E w \in 1..Len(writes) : writes[w] = outputFile

\* C16: convertFile never rejects.  Whatever step fails (input missing or
\* unreadable, input validation, parsing, transformation, writing the output
\* file) the call resolves with success = FALSE and a non-empty errors array;
\* success = TRUE is set only after every step, the write of a requested
\* output file included, has completed.
C16_ConvertFileNeverRejects ==
  /\ returned.kind \in {"none", "resolved"}
  /\ call # NoCall =>
       /\ call.result["success"] => call.pc = "finally"
       /\ (call.pc = "finally" /\ ~call.result["success"]) => Len(call.result["errors"]) > 0
  /\ \A i \in 1..Len(results) :
       LET result == results[i]
           step == FailingStep(fsys, PathOf(i), OptionsFor(i))
       IN /\ step # "" => (~result["success"] /\ Len(result["errors"]) > 0)
          /\ ~result["success"] => (step # "" /\ Len(result["errors"]) > 0)
          /\ result["success"] =>
               /\ Truthy(result, "ucl")
               /\ (Truthy(OptionsFor(i), "outputFile") /\ ~Option(OptionsFor(i), "dryRun", FALSE)) =>
                    /\ Has(result, "outputFile")
                    /\ result["outputFile"] = OptionsFor(i)["outputFile"]
                    /\ Wrote(result["outputFile"])
                    /\ fsys[result["outputFile"]] # "absent"

\* convertFile has resolved after the write of the output file was refused:
\* the text was made, success is FALSE and the error is reported
C16_Witness ==
  /\ request # NoRequest
  /\ request.api = "convertFile"
  /\ returned.kind = "resolved"
  /\ FailingStep(fsys, PathOf(1), OptionsFor(1)) = "writeOutput"
  /\ ~returned.value["success"]
  /\ Truthy(returned.value, "ucl")
  /\ Len(returned.value["errors"]) = 1

\* C17: convertBatch works through the input paths one after another and
\* resolves with exactly one result per path, in input order; an input that
\* fails has success = FALSE at its index and neither stops the batch nor
\* changes what the later inputs yield.
C17_BatchSequentialIsolated ==
  (request # NoRequest /\ request.api = "convertBatch") =>
     /\ Len(results) <= Len(request.configPaths)
     /\ call # NoCall => call.configPath = PathOf(Len(results) + 1)
     /\ \A i \in 1..Len(results) :
          LET step == FailingStep(fsys, PathOf(i), OptionsFor(i)) IN
          /\ results[i]["success"] <=> step = ""
          /\ step \notin {"access", "readFile"} => results[i]["inputFiles"] = <<PathOf(i)>>
          /\ step \in {"access", "readFile"} => results[i]["inputFiles"] = <<>>
          /\ step \in {"", "writeOutput"} =>
               (Has(results[i], "ucl") /\ results[i]["ucl"] = "# UCL of " \o PathOf(i) \o "\n")
     /\ returned.kind # "none" =>
          /\ returned.kind = "resolved"
          /\ returned.value = results
          /\ Len(returned.value) = Len(request.configPaths)

\* a batch of two has resolved: the first input failed, the second succeeded
\* and its output file was written
C17_Witness ==
  /\ request # NoRequest
  /\ request.api = "convertBatch"
  /\ returned.kind = "resolved"
  /\ Len(returned.value) = 2
  /\ ~returned.value[1]["success"]
  /\ returned.value[2]["success"]
  /\ Has(returned.value[2], "outputFile")
  /\ Wrote(returned.value[2]["outputFile"])

\* the request runs convertFile with dryRun = TRUE
DryRunRequest ==
  /\ request # NoRequest
  /\ request.api = "preview" \/ Option(request.options, "dryRun", FALSE)

\* C18: a dry run writes nothing.  When convertFile runs with dryRun = TRUE
\* (preview forces it) no file is created or overwritten even if outputFile is
\* given, result.outputFile stays undefined, and the converted text is still
\* returned in result.ucl (by preview as its ucl).
C18_DryRunWritesNothing ==
  DryRunRequest =>
     /\ writes = <<>>
     /\ \A q \in AllPaths \ InputPaths : fsys[q] \in {"absent", "# an earlier output\n"}
     /\ call # NoCall => ~Has(call.result, "outputFile")
     /\ \A i \in 1..Len(results) :
          /\ ~Has(results[i], "outputFile")
          /\ FailingStep(fsys, PathOf(i), OptionsFor(i)) = "" =>
               /\ results[i]["success"]
               /\ Has(results[i], "ucl")
               /\ results[i]["ucl"] = "# UCL of " \o PathOf(i) \o "\n"
     /\ (returned.kind # "none" /\ request.api = "preview"
           /\ FailingStep(fsys, PathOf(1), OptionsFor(1)) = "") =>
          returned.value.ucl = "# UCL of " \o PathOf(1) \o "\n"

\* convertFile has resolved for a dry run with an output file that exists:
\* the text is returned, success is TRUE, and the file still holds what it held
C18_Witness ==
  /\ request # NoRequest
  /\ request.api = "convertFile"
  /\ Option(request.options, "dryRun", FALSE)
  /\ Truthy(request.options, "outputFile")
  /\ request.options["outputFile"] = "out/all.ucl"
  /\ fsys["out/all.ucl"] = "# an earlier output\n"
  /\ returned.kind = "resolved"
  /\ returned.value["success"]
  /\ Truthy(returned.value, "ucl")
  /\ ~Has(returned.value, "outputFile")
  /\ writes = <<>>

RECURSIVE WildcardMatches(_, _)
\* the hostnames a server_name pattern stands for: each '*' is an arbitrary
\* string, every other character is itself, the whole hostname is matched
WildcardMatches(pattern, hostname) ==
  IF pattern = "" THEN hostname = ""
  ELSE IF Head(pattern) = "*"
    THEN \E k \in 0..Len(hostname) :
           WildcardMatches(Tail(pattern), SubSeq(hostname, k + 1, Len(hostname)))
  ELSE hostname # "" /\ Head(hostname) = Head(pattern)
       /\ WildcardMatches(Tail(pattern), Tail(hostname))

\* C19: in all four generators the host condition emitted for a server_name
\* list with a wildcard pattern (and without the literal "*") is true for
\* exactly the hostnames that one of the patterns stands for; e.g. for
\* '*.example.com' true for 'api.example.com', false for 'apiXexample.com' and
\* 'example.org'.
C19_WildcardHostPatterns ==
  Generated =>
    \A k \in 1..Len(config.servers) :
      LET hostPatterns == extractHostPatterns(config.servers[k]) IN
      (/\ ~ArrayIncludes(hostPatterns, "*")
       /\ \E i \in 1..Len(hostPatterns) : Includes(hostPatterns[i], "*")) =>
        \A h \in Hostnames :
          EvalCondition(EmittedHostCondition(output.text, k), "hostname", h)
            <=> \E i \in 1..Len(hostPatterns) : WildcardMatches(hostPatterns[i], h)

\* the request paths a prefix location with path p stands for
PrefixMatches(p, r) ==
  IF EndsWith(p, "/") THEN StartsWith(r, p) ELSE r = p \/ StartsWith(r, p \o "/")

\* C20: in every generator the condition emitted for a location without a
\* modifier is true for a request path r exactly when r equals the location
\* path p or starts with p followed by '/' (p not ending in '/'), or when r
\* starts with p (p ending in '/'); for every path string p, paths that
\* contain '~' or start with '=' included.
C20_PrefixSegmentBoundaries ==
  Generated =>
    \A k \in 1..Len(config.servers) :
      \A i \in 1..Len(config.servers[k].locations) :
        LET location == config.servers[k].locations[i] IN
        Modifier(location) = "" =>
          \A r \in RequestPaths :
            LocationMatches(gen, location, r) <=> PrefixMatches(location.path, r)

\* the text by which the block of a location shows an action of the kind
ActionMarker(g, kind) ==
  CASE kind = "redirect" ->
         (CASE g = "cloudflare"  -> "Response.redirect(redirectUrl, "
            [] g = "nextjs"      -> "url.pathname = \""
            [] g = "lambda-edge" -> "location: [{ key: 'Location', value: redirectUrl }]"
            [] g = "quickjs"     -> "return createRedirect(")
    [] kind = "response" ->
         (CASE g \in {"lambda-edge", "quickjs"} -> "// Return "
            [] OTHER -> "")
    [] kind = "proxy" -> "// Proxy to: "
    [] kind = "static" ->
         (CASE g = "cloudflare" -> "Static file serving not implemented"
            [] g = "nextjs"     -> "// Static files served from /public directory"
            [] OTHER -> "")
    [] kind = "default" ->
         (CASE g = "cloudflare" -> "Location matched but no action defined"
            [] OTHER -> "")

ActionKinds == {"redirect", "response", "proxy", "static", "default"}

\* the kinds of action the emitted block of the location holds; the default of
\* the middleware generator is a bare NextResponse.next(), the one of the
\* Lambda@Edge and QuickJS generators a block without any handler line
EmittedActions(g, location) ==
  {kind \in ActionKinds \ {"default"} :
     /\ ActionMarker(g, kind) # ""
     /\ Includes(LocationText(g, location), ActionMarker(g, kind))}
  \cup
  (IF \/ /\ g = "cloudflare"
         /\ Includes(LocationText(g, location), ActionMarker(g, "default"))
      \/ /\ g = "nextjs"
         /\ Includes(LocationText(g, location), "NextResponse.next();")
         /\ ~Includes(LocationText(g, location), ActionMarker(g, "static"))
      \/ /\ g \in {"lambda-edge", "quickjs"}
         /\ Len(LocationBlock(g, location, "    ")) = 3
     THEN {"default"} ELSE {})

\* the action the decision order of the claim asks for
ExpectedAction(location) ==
  IF /\ Has(location.directives, "return")
     /\ location.directives["return"].code >= 300
     /\ location.directives["return"].code < 400
    THEN "redirect"
  ELSE IF Truthy(location.directives, "proxy_pass") THEN "proxy"
  ELSE IF isStaticLocation(location) THEN "static"
  ELSE "default"

\* C21: in the text of every generator the block of each location holds the
\* action of the first applicable rule and no other: a redirect for a return
\* with a code in 300..399 (also next to a proxy_pass), otherwise a proxy
\* action when proxy_pass is present (also next to a return with another
\* code), otherwise the static placeholder for root/alias, otherwise the
\* default action of the target.
C21_ActionDecisionOrder ==
  Generated =>
    \A k \in 1..Len(config.servers) :
      \A i \in 1..Len(config.servers[k].locations) :
        LET location == config.servers[k].locations[i] IN
        /\ Includes(ServerSegment(output.text, k), LocationText(gen, location))
        /\ EmittedActions(gen, location) = {ExpectedAction(location)}

\* the conditional of one rewrite rule inside the text of a location block:
\* from the test of the rule's regex to the brace that closes it
RuleConditional(text, rule) ==
  LET guard == "if (url.pathname.match(/" \o rule.regex \o "/)) {"
      from  == IndexOf(text, guard)
      rest  == IF from = 0 THEN "" ELSE SubSeq(text, from + Len(guard), Len(text))
      stop  == IndexOf(rest, "\n")
      body  == IF stop = 0 THEN "" ELSE SubSeq(rest, stop + 1, Len(rest))
      close == IndexOf(body, "}")
  IN IF close = 0 THEN "" ELSE SubSeq(body, 1, close)

RedirectingRule(rule) == FlagsInclude(rule, "redirect") \/ FlagsInclude(rule, "permanent")

\* C22: in the text of every generator each rewrite rule with the flag
\* 'redirect' or 'permanent' (of a location that does not return a 3xx
\* redirect first) is a conditional on a match of the rule's regex that
\* redirects to the regex-replaced path, with 301 for 'permanent' and 302
\* otherwise, and the conditional stands before the proxy action of the
\* location when proxy_pass is present.
C22_RewriteRedirects ==
  Generated =>
    \A k \in 1..Len(config.servers) :
      \A i \in 1..Len(config.servers[k].locations) :
        LET location == config.servers[k].locations[i]
            text == LocationText(gen, location)
        IN (Has(location.directives, "rewrite") /\ ExpectedAction(location) # "redirect") =>
             \A r \in 1..Len(location.directives["rewrite"]) :
               LET rule == location.directives["rewrite"][r]
                   cond == RuleConditional(text, rule)
               IN RedirectingRule(rule) =>
                    /\ Includes(ServerSegment(output.text, k), text)
                    /\ Includes(cond, "url.pathname.replace(/" \o rule.regex \o "/, \""
                                        \o rule.replacement \o "\")")
                    /\ Includes(cond, "redirect(")
                    /\ Includes(cond, IF FlagsInclude(rule, "permanent") THEN ", 301);"
                                      ELSE ", 302);")
                    /\ Truthy(location.directives, "proxy_pass") =>
                         /\ IndexOf(text, "// Proxy to: ") > 0
                         /\ IndexOf(text, "if (url.pathname.match(/" \o rule.regex \o "/)) {")
                              < IndexOf(text, "// Proxy to: ")

\* the location directives of the tree with the LocationBlock built from each:
\* <<directive, LocationBlock>> pairs (the builder keeps their order)
BuiltLocations ==
  LET nodes == ServerDirectivesOf(parseResult.config[1].parsed) IN
  UNION {{<<ChildrenOf(nodes[k], IsLocationNode)[j], config.servers[k].locations[j]>> :
            j \in 1..Len(ChildrenOf(nodes[k], IsLocationNode))} :
         k \in 1..Len(nodes)}

\* C23: the builder reads a leading '=', '~', '~*' or '^~' of a location
\* directive as the modifier and the following argument as the path; without
\* such a token the modifier is absent and the path is the first argument.
\* The path of a LocationBlock is never a modifier token.
C23_ModifierRecognition ==
  BuiltFromTree =>
    \A pair \in BuiltLocations :
      LET args == pair[1].args
          location == pair[2]
      IN /\ location.path \notin ModifierTokens
         /\ (Len(args) >= 2 /\ args[1] \in ModifierTokens) =>
              /\ Has(location, "modifier")
              /\ location.modifier = args[1]
              /\ location.path = args[2]
         /\ (Len(args) >= 1 /\ args[1] \notin ModifierTokens) =>
              /\ ~Has(location, "modifier")
              /\ location.path = args[1]

\* the directives of a location block the builder converts specifically
ConvertedDirectives == {"proxy_pass", "return", "root", "expires", "add_header"}

\* the value a directive of the tree carries: its argument, or its arguments
DirectiveValues(ld) == {ld.args} \cup (IF Len(ld.args) >= 1 THEN {ld.args[1]} ELSE {})

\* C24: every directive of a location block that is not proxy_pass, return,
\* root, expires or add_header is kept in the directives map of the
\* LocationBlock under its own name with its value, so that validate() of the
\* Lambda@Edge and QuickJS generators refuses a model built from a tree with
\* fastcgi_pass or uwsgi_pass in a location.
C24_UnrecognizedPassthrough ==
  BuiltFromTree =>
    \A pair \in BuiltLocations :
      LET block == IF Has(pair[1], "block") THEN pair[1].block ELSE <<>>
          location == pair[2]
      IN \A d \in 1..Len(block) :
           block[d].directive \notin ConvertedDirectives =>
             /\ Has(location.directives, block[d].directive)
             /\ location.directives[block[d].directive] \in DirectiveValues(block[d])
             /\ block[d].directive \in {"fastcgi_pass", "uwsgi_pass"} =>
                  \A g \in {"lambda-edge", "quickjs"} : ~validate(g, config).valid

\* proxy_pass is an absolute http(s) URL of a host other than the local one
NonLocalAbsolute(target) ==
  /\ StartsWith(target, "http://") \/ StartsWith(target, "https://")
  /\ ParseURL(target).ok
  /\ ParseURL(target).hostname \notin {"localhost", "127.0.0.1"}

\* validate() reported a warning about the proxy of the location
HasProxyWarning(warnings, k, i) ==
  \E w \in 1..Len(warnings) :
    /\ StartsWith(warnings[w], "Server " \o ToString(k - 1) \o ", Location "
                                 \o ToString(i - 1) \o ":")
    /\ Includes(warnings[w], "Proxy")

\* C25: for every location of the model whose proxy_pass is an absolute URL of
\* a non-local host, validate() of the middleware generator reports a warning
\* about that location and no error, and generate() returns text whose block
\* of the location (when the proxy is its action) holds the rewrite to the
\* backend.
C25_MiddlewareProxyWarning ==
  (gen = "nextjs" /\ validation.done) =>
    \A k \in 1..Len(config.servers) :
      \A i \in 1..Len(config.servers[k].locations) :
        LET location == config.servers[k].locations[i] IN
        (Truthy(location.directives, "proxy_pass")
           /\ NonLocalAbsolute(location.directives["proxy_pass"])) =>
          /\ validation.errors = <<>>
          /\ HasProxyWarning(validation.warnings, k, i)
          /\ (output.kind # "none" /\ ExpectedAction(location) = "proxy") =>
               /\ output.kind = "text"
               /\ Includes(LocationText(gen, location), "return NextResponse.rewrite(backendUrl);")

\* the emitted block of the location has handler lines that do something: an
\* action of one of the kinds, not only comments and not an empty block
HasAction(g, location) ==
  /\ Len(LocationBlock(g, location, "")) > 3
  /\ EmittedActions(g, location) # {}

\* control leaves the handler at the end of the block: one of the lines of the
\* action itself (not of a conditional nested in it) is a return statement
BlockLeaves(g, location) ==
  \E n \in 3..(Len(LocationBlock(g, location, "")) - 1) :
    StartsWith(LocationBlock(g, location, "")[n], "  return ")

\* the location blocks of the text in the order the handler runs through them:
\* <<server position, location>> for the servers in order, each with its
\* locations in emitted order
EmittedBlocks(g, cfg) ==
  ConcatAll([k \in 1..Len(cfg.servers) |->
               [i \in 1..Len(cfg.servers[k].locations) |->
                  <<k, EmittedLocations(g, cfg.servers[k].locations)[i]>>]])

\* the positions in EmittedBlocks whose block is executed for the request: the
\* host condition of its server and its own path condition hold, and no block
\* before it was entered and left the handler
ExecutedBlocks(g, cfg, text, hostname, path) ==
  LET blocks == EmittedBlocks(g, cfg)
      Entered(n) ==
        /\ EvalCondition(EmittedHostCondition(text, blocks[n][1]), "hostname", hostname)
        /\ LocationMatches(g, blocks[n][2], path)
  IN {n \in 1..Len(blocks) :
        /\ Entered(n)
        /\ \A m \in 1..(n - 1) : ~(Entered(m) /\ BlockLeaves(g, blocks[m][2]))}

\* C26: in the code emitted by every generator at most one location acts per
\* request: a location block with an action (redirect, response, proxy, static
\* placeholder or default) leaves the handler, so among the blocks executed
\* for a request at most one has an action.
C26_AtMostOneLocationActs ==
  Generated =>
    /\ \A n \in 1..Len(EmittedBlocks(gen, config)) :
         HasAction(gen, EmittedBlocks(gen, config)[n][2]) =>
           BlockLeaves(gen, EmittedBlocks(gen, config)[n][2])
    /\ \A h \in Hostnames : \A r \in RequestPaths :
         Cardinality({n \in ExecutedBlocks(gen, config, output.text, h, r) :
                        HasAction(gen, EmittedBlocks(gen, config)[n][2])}) <= 1

\* the body of the emitted origin-response hook
OriginResponseBody(text) ==
  LET head == "async function handleOriginResponse(response) {\n"
      from == IndexOf(text, head)
      rest == IF from = 0 THEN "" ELSE SubSeq(text, from + Len(head), Len(text))
      stop == IndexOf(rest, "  return response;\n}")
  IN IF stop = 0 THEN "" ELSE SubSeq(rest, 1, stop - 1)

\* the emitted origin-response hook sets the header on the response to the
\* request: a line of the function body itself assigns it, so it runs whatever
\* the hostname and the path are
HeaderSetFor(text, name, hostname, path) ==
  LET lines == Split(OriginResponseBody(text), "\n") IN
  \E n \in 1..Len(lines) :
    StartsWith(lines[n], "  response.headers['" \o ToLowerCase(name) \o "'] = ")

\* some location with the header in its add_header serves the request: the
\* emitted host condition of its server and its path condition hold
HeaderOwnerMatches(g, cfg, text, name, hostname, path) ==
  \E k \in 1..Len(cfg.servers) :
    /\ EvalCondition(EmittedHostCondition(text, k), "hostname", hostname)
    /\ \E i \in 1..Len(cfg.servers[k].locations) :
         /\ Has(cfg.servers[k].locations[i].directives, "add_header")
         /\ Has(cfg.servers[k].locations[i].directives["add_header"], name)
         /\ LocationMatches(g, cfg.servers[k].locations[i], path)

HeaderNames == {"Vary", "X-A", "X-B"}

\* C27: in the text of the Lambda@Edge generator a header of a location's
\* add_header is set only on responses to requests that match the host
\* condition of the location's server and the path condition of the location.
C27_HeaderScoping ==
  (Generated /\ gen = "lambda-edge") =>
    \A name \in HeaderNames : \A h \in {"example.com", "other.org"} :
      \A r \in {"/", "/docs", "/docs/a", "/other"} :
        HeaderSetFor(output.text, name, h, r) =>
          HeaderOwnerMatches(gen, config, output.text, name, h, r)

\* C28: the configuration model is read-only for the generators: once the
\* model is built no validate() and no generate() of any generator changes it
\* (in particular not the order of servers[i].locations), so whatever ran
\* before, the outcome of generate() is the one of that generator on the model
\* as it was passed to the constructor.
C28_ModelReadOnly ==
  /\ [][phase = "built" => config' = config]_vars
  /\ [](output.kind # "none" => output = generate(gen, config))

\* the worker generator has validated and generated text for a model whose
\* locations are not in the order of the specificity sort
C28_Witness ==
  /\ Generated
  /\ gen = "cloudflare"
  /\ validation.done
  /\ prevOutput.kind = "text"
  /\ \E k \in 1..Len(config.servers) :
       SortLocations(config.servers[k].locations) # config.servers[k].locations

Settled == promise.state \in {"resolved", "rejected"}

\* C29: the promise of runCrossplane settles exactly once under every
\* interleaving of the child's events and the timer: a pending promise
\* eventually settles; it is resolved (with the trimmed stdout) exactly when
\* the first terminal event is 'close' with code 0 and rejected when the first
\* terminal event is anything else; once settled no later event changes state
\* or value; and after 'close' the timer is not armed any more.
C29_SettlesExactlyOnce ==
  /\ (promise.state = "pending") ~> Settled
  /\ [](Len(terminal) >= 1 =>
          promise.state = (IF terminal[1] = "close:0" THEN "resolved" ELSE "rejected"))
  /\ [](Settled => Len(terminal) >= 1)
  /\ [](promise.state = "resolved" => promise.value = Trim(stdout))
  /\ [][Settled => promise' = promise]_vars
  /\ [](child = "closed" => timeout # "armed")

\* the child closed with code 0 after an 'error' event had rejected the
\* promise: the late 'close' changed nothing and cleared the timer
C29_Witness ==
  /\ Len(terminal) = 2
  /\ terminal[1] = "error"
  /\ terminal[2] = "close:0"
  /\ promise.state = "rejected"
  /\ stdout # ""
  /\ timeout = "cleared"

\* one more call has been made in this step
CallMade == ops' = ops + 1

\* C30: parseUCL and parseUCLFile free the parser they create exactly once on
\* every path (result, parse failure, exception) and leave other parsers
\* alone; on a destroyed UCLParser parseString and parseFile return
\* {success: false} without any native call and destroy() frees nothing; a
\* live UCLParser is freed once by destroy(); and every object obtained from
\* ucl_parser_get_object is released exactly once before getResult returns.
C30_NativeParserLifecycle ==
  /\ [](libucl.freed = libucl.parsers - (IF parser = "handle" THEN 1 ELSE 0))
  /\ [](libucl.unrefs = libucl.objects)
  /\ [][(CallMade /\ lastCall'.op \in {"parseUCL", "parseUCLFile"}) =>
          /\ libucl'.parsers - libucl.parsers \in {0, 1}
          /\ libucl'.freed - libucl.freed = libucl'.parsers - libucl.parsers
          /\ parser' = parser]_vars
  /\ [][(CallMade /\ parser = "null" /\ lastCall'.op \in {"parseString", "parseFile"}) =>
          /\ libucl' = libucl
          /\ lastCall'.ret.kind = "returned"
          /\ ~lastCall'.ret.success]_vars
  /\ [][(CallMade /\ lastCall'.op = "destroy") =>
          /\ parser' = "null"
          /\ libucl'.freed - libucl.freed = (IF parser = "handle" THEN 1 ELSE 0)
          /\ parser = "null" => libucl' = libucl]_vars

\* after a parseUCL call that obtained an object, the directly used parser was
\* destroyed and then asked to parse: two parsers made, two freed
C30_Witness ==
  /\ parser = "null"
  /\ lastCall.op = "parseString"
  /\ lastCall.ret = Failure("Parser not initialized")
  /\ libucl.parsers = 2
  /\ libucl.freed = 2
  /\ libucl.objects = 1
  /\ libucl.unrefs = 1
==============================================================================
